---- MODULE Spec2Model ----
(***************************************************************************)
(* Offline-first synchronisation between a browser-resident cache and a    *)
(* remote document store (LeanCloud).  The module models the three sync    *)
(* managers of the repository:                                             *)
(*   LoveSiteDataSync  (src/leancloud-proxy.js)   - SpecLS                 *)
(*   SimpleDataSync    (src/unnamed/part_000)     - SpecSDS                *)
(*   FixedDataSync     (src/leancloud-proxy.js)   - SpecFDS                *)
(* and the pure record merger mergeData           - SpecMerge              *)
(***************************************************************************)
EXTENDS Integers, Sequences, FiniteSets, TLC

\* ------------------------------------------------------------------ bounds
MaxUserOps == 2     \* addItem / updateItem / deleteItem calls in one run
MaxForeign == 1     \* records created in the remote store by another device
MaxVal     == 2     \* distinct field payloads a caller may supply
MaxLen     == 2     \* length of the sequences handed to mergeData in SpecMerge
MaxMergeId == 2     \* identities per kind handed to mergeData in SpecMerge
MaxMergeTime == 2   \* createdAt values handed to mergeData in SpecMerge
MaxRuns    == 2     \* syncAllData invocations of SimpleDataSync suspended at one time
MaxQueueOps == 4    \* user operations while the order of the remote calls is recorded
MaxTimerCalls == 8    \* calls of startAutoSync and stopAutoSync

\* ------------------------------------------------------------- identities
\* An identity is a tagged value: kind "temp" is the 'temp_' + 18 hex digits
\* of generateTempId, kind "obj" a remote objectId (24 hex digits), kind
\* "local" the 'local_...' ids of FixedDataSync.generateId.
NoId == [kind |-> "none", n |-> 0]
TempId(n) == [kind |-> "temp", n |-> n]
ObjId(n) == [kind |-> "obj", n |-> n]
LocalId(n) == [kind |-> "local", n |-> n]

\* /^[0-9a-fA-F]{24}$/ accepts remote objectIds only: 'temp_...' holds '_'
isValidObjectId(id) == id.kind = "obj"

startsWithTemp(id) == id.kind = "temp"

\* the text of an identity.  n stands for the random draw of generateTempId
\* and for the number the remote store encodes in an objectId
HexChars == <<"0", "1", "2", "3", "4", "5", "6", "7", "8", "9", "a", "b", "c", "d", "e", "f">>

RECURSIVE HexDigits(_, _)
HexDigits(n, len) ==
    IF len = 0 THEN <<>>
    ELSE HexDigits(n \div 16, len - 1) \o <<HexChars[(n % 16) + 1]>>

\* generateTempId(): 'temp_' followed by 18 hexadecimal digits
generateTempId(n) == <<"t", "e", "m", "p", "_">> \o HexDigits(n, 18)

idString(id) ==
    CASE id.kind = "temp" -> generateTempId(id.n)
      [] id.kind = "obj" -> HexDigits(id.n, 24)
      [] id.kind = "local" -> <<"l", "o", "c", "a", "l", "_">> \o HexDigits(id.n, 24)
      [] OTHER -> <<>>

\* the test /^[0-9a-fA-F]{24}$/ on a text
matchesObjectId(text) ==
    /\ Len(text) = 24
    /\ \A i \in 1..Len(text) :
          text[i] \in {HexChars[k] : k \in 1..16} \cup {"A", "B", "C", "D", "E", "F"}

\* how table.destroy() can end
DestroyOutcomes == {"deleted", "notfound", "denied", "server", "network"}

\* a deleteData that takes code 101 for a failure like any other
deleteData_Strict(av, id, outcome) ==
    IF ~av THEN FALSE
    ELSE IF ~isValidObjectId(id) THEN TRUE
    ELSE outcome = "deleted"

\* LeanCloudProxy.deleteData(tableName, id): false without the SDK, true at once
\* for an id that is no objectId, else true when destroy() succeeded or failed
\* with code 101
deleteData(av, id, outcome) ==
    IF ~av THEN FALSE
    ELSE IF ~isValidObjectId(id) THEN TRUE
    ELSE outcome \in {"deleted", "notfound"}

\* --------------------------------------------------------------- records
\* v stands for the domain fields; createdAt 0 stands for an absent createdAt
Rec(id, v, isLocal, createdAt) ==
    [id |-> id, v |-> v, isLocal |-> isLocal, createdAt |-> createdAt]
NoRec == Rec(NoId, 0, FALSE, 0)

\* what localStorage.getItem / JSON.parse can yield for a key: no value, a text
\* JSON.parse rejects, or the parsed value: null, an object, a number or an
\* array (whose elements are records or null, written NoRec)
JValue(kind, items) == [kind |-> kind, items |-> items]
JAbsent == JValue("absent", <<>>)
JArray(items) == JValue("array", items)

Ids(s) == {s[i].id : i \in 1..Len(s)}
Range(s) == {s[i] : i \in 1..Len(s)}
IndexOf(s, id) ==
    IF \E i \in 1..Len(s) : s[i].id = id
    THEN CHOOSE i \in 1..Len(s) : s[i].id = id /\ \A j \in 1..(i-1) : s[j].id # id
    ELSE 0
RemoveAt(s, i) == [j \in 1..(Len(s)-1) |-> IF j < i THEN s[j] ELSE s[j+1]]
FilterOutId(s, id) == SelectSeq(s, LAMBDA r : r.id # id)
\* Array.prototype.splice(i, 1): nothing is removed past the end
Splice(s, i) == IF i \in 1..Len(s) THEN RemoveAt(s, i) ELSE s
UniqueIds(s) == \A i, j \in 1..Len(s) : s[i].id = s[j].id => i = j

\* ------------------------------------------------------------- mergeData
\* new Map() filled by forEach(set): a key keeps the position of its first
\* insertion and the value of its last one; items without id are skipped
RECURSIVE MapOf(_)
MapOf(s) ==
    IF s = <<>> THEN <<>>
    ELSE LET init == MapOf(SubSeq(s, 1, Len(s) - 1))
             item == s[Len(s)]
             k == IndexOf(init, item.id)
         IN IF item.id = NoId THEN init
            ELSE IF k = 0 THEN Append(init, item)
            ELSE [init EXCEPT ![k] = item]

\* a sort that puts a record before the records of equal createdAt
RECURSIVE InsertDesc_Unstable(_, _)
InsertDesc_Unstable(sorted, r) ==
    IF sorted = <<>> THEN <<r>>
    ELSE IF Head(sorted).createdAt > r.createdAt
         THEN <<Head(sorted)>> \o InsertDesc_Unstable(Tail(sorted), r)
         ELSE <<r>> \o sorted

\* Array.prototype.sort with (a, b) => dateB - dateA: stable, createdAt descending
RECURSIVE InsertDesc(_, _)
InsertDesc(sorted, r) ==
    IF sorted = <<>> THEN <<r>>
    ELSE IF Head(sorted).createdAt >= r.createdAt
         THEN <<Head(sorted)>> \o InsertDesc(Tail(sorted), r)
         ELSE <<r>> \o sorted

RECURSIVE SortDesc(_)
SortDesc(s) ==
    IF s = <<>> THEN <<>>
    ELSE InsertDesc(SortDesc(SubSeq(s, 1, Len(s) - 1)), s[Len(s)])

\* a merge that keeps every record of both arguments
mergeData_Concat(local, remote) == local \o remote

\* a merge that drops what only local holds
mergeData_RemoteOnly(local, remote) == remote

\* a merge without the early returns for an empty argument
mergeData_AlwaysMerged(local, remote) ==
    LET remoteMap == MapOf(remote)
    IN SortDesc(remoteMap \o SelectSeq(MapOf(local), LAMBDA r : r.id \notin Ids(remoteMap)))

\* a merge that sorts both arguments together without looking at the ids
mergeData_KeepBoth(local, remote) == SortDesc(local \o remote)

mergeData(local, remote) ==
    IF Len(local) = 0 THEN remote
    ELSE IF Len(remote) = 0 THEN local
    ELSE LET localMap == MapOf(local)
             remoteMap == MapOf(remote)
             localOnly == SelectSeq(localMap, LAMBDA r : r.id \notin Ids(remoteMap))
         IN SortDesc(remoteMap \o localOnly)

\* ------------------------------------------------------------------ state
VARIABLES
    \* LoveSiteDataSync (src/leancloud-proxy.js)
    initPc,          \* position of init(): "constructed", "waiting", "ready", "failed"
    isInitialized,   \* this.isInitialized
    syncing,         \* this.syncing
    localData,       \* this.localData[type]
    pendingSyncs,    \* this.pendingSyncs.get(type)
    psKeys,          \* key order of the pendingSyncs Map
    drain,           \* the suspended processPendingSyncs: indices and captured operation
    fetch,           \* per type, the getTableData call of a running syncDataType
    subscribed,      \* live-query subscriptions set up by setupRealtimeListeners
    timers,          \* running setInterval timers of startAutoSync
    \* environment
    store,           \* localStorage: the persisted snapshot per type
    remote,          \* the remote store: per type, records newest first
    rpc,             \* the remote write call in flight
    pushQ,           \* live-query events sent by the server and not yet delivered
    nextTemp, nextObj, clock, nextSeq,
    budget, foreignLeft,
    \* SimpleDataSync (src/unnamed/part_000) and FixedDataSync (src/leancloud-proxy.js)
    manager,         \* the sync manager the page constructed
    data,            \* this.data[type]
    isReady,         \* this.isReady
    syncStatus,      \* this.syncStatus
    retryCount,      \* this.retryCount
    useFallback,     \* this.useFallback (FixedDataSync)
    pcInit,          \* position of init()
    runs,            \* the syncAllData() invocations that are suspended on an await
    initLoad,        \* the loadAllData() of init(): its query in flight
    mutationTimers,  \* pending 1-second timers set by addItem / updateItem / deleteItem
    retryTimers,     \* pending 3-second retry timers set by a failed syncAllData
    calls,           \* FixedDataSync: the awaited remote writes of the mutations
    \* mergeData called on its own
    mergeLocal, mergeRemote,   \* the arguments local and remote
    merged,                    \* the returned sequence
    remerged,                  \* mergeData(type, merged, remote)
    mergePc,                   \* "args" before the call, "done" after it, "again"
                               \* after the result was merged with remote once more
    \* a collection loaded from the local store on its own
    storedValue,     \* what localStorage holds under the key
    loadResult,      \* what the loader hands to its caller
    loadPc,          \* "stored" before the call, then the loader that ran
    \* LeanCloudProxy.deleteData called on its own
    deleteArgs,      \* window.AV defined, the id, how table.destroy() will end
    deleteResult,    \* the returned value
    deletePc,        \* "called", "destroy" while destroy() is awaited, "returned"
    \* startAutoSync / stopAutoSync called on their own
    autoSyncInterval,   \* this.autoSyncInterval: an interval id, 0 for null / undefined
    intervals,          \* the ids of the interval timers the browser is running
    timerCalls,         \* how many calls the page still makes
    \* observation
    track,           \* whether the run records the order of the remote calls
    attempted        \* sequence numbers of the operations whose remote call was started

lsVars == <<initPc, isInitialized, syncing, localData, pendingSyncs, psKeys, drain,
            fetch, subscribed, timers>>
envVars == <<store, remote, rpc, pushQ, nextTemp, nextObj, clock, nextSeq, budget,
             foreignLeft>>
obsVars == <<track, attempted>>
sVars == <<manager, data, isReady, syncStatus, retryCount, useFallback, pcInit, runs,
           initLoad, mutationTimers, retryTimers, calls>>
loadVars == <<storedValue, loadResult, loadPc>>
deleteVars == <<deleteArgs, deleteResult, deletePc>>
timerVars == <<autoSyncInterval, intervals, timerCalls>>
mVars == <<mergeLocal, mergeRemote, merged, remerged, mergePc, loadVars, deleteVars,
           timerVars>>
vars == <<lsVars, envVars, obsVars, sVars, mVars>>

\* this.dataTypes; the collections are synchronised independently of one another
DataTypes == {"Photo"}
dataTypes == <<"Photo">>
Vals == 1..MaxVal
\* the payload of an added record is opaque to the sync managers
AddVals == {1}

\* a queued operation {action, data, timestamp}: data is the record of an 'add',
\* {...fields, id} of an 'update', {id} of a 'delete'; stale stands for
\* Date.now() - timestamp > 24h; seq numbers the operations in enqueue order
Op(action, id, v, createdAt, seq) ==
    [action |-> action, id |-> id, v |-> v, createdAt |-> createdAt,
     stale |-> FALSE, seq |-> seq]
NoOp == [action |-> "none", id |-> NoId, v |-> 0, createdAt |-> 0,
         stale |-> FALSE, seq |-> 0]
NoDrain == [on |-> FALSE, k |-> 0, i |-> 0, op |-> NoOp]
NoRpc == [st |-> "none", action |-> "none", t |-> "none", id |-> NoId, v |-> 0,
          res |-> NoRec]
NoFetch == [st |-> "none", snap |-> <<>>]
\* a suspended syncAllData of SimpleDataSync / FixedDataSync: st is "upload" while
\* it awaits the remote write of items[j], "sent" / "read" while it awaits the query
Runs == 1..MaxRuns
NoRun == [st |-> "idle", items |-> <<>>, j |-> 0, snap |-> <<>>]
QueuedOps(ps) == UNION {Range(ps[t]) : t \in DataTypes}
Seqs(ps) == {o.seq : o \in QueuedOps(ps)}

\* what an earlier session can have left in localStorage
InitialStores ==
    { <<>>,
      <<Rec(TempId(1), 1, TRUE, 1), Rec(ObjId(1), 1, FALSE, 1)>> }

\* ------------------------------------------------- LoveSiteDataSync: queue
\* processUpdateOperation / processDeleteOperation issue a remote call only for
\* a valid objectId; processAddOperation always calls proxy.addData
NeedsRemoteCall_Always(op) == TRUE

NeedsRemoteCall(op) == op.action = "add" \/ isValidObjectId(op.id)

\* the loops of processPendingSyncs from position (k, i) up to the next remote
\* call: an operation that needs none returns at once and is spliced out
RECURSIVE DrainScan(_, _, _, _)
DrainScan(ps, keys, k, i) ==
    IF k > Len(keys) THEN [ps |-> ps, k |-> k, i |-> i, done |-> TRUE]
    ELSE LET t == keys[k]
             ops == ps[t]
         IN IF i > Len(ops) THEN DrainScan(ps, keys, k + 1, 1)
            ELSE IF NeedsRemoteCall(ops[i])
                 THEN [ps |-> ps, k |-> k, i |-> i, done |-> FALSE]
                 ELSE DrainScan([ps EXCEPT ![t] = RemoveAt(ops, i)], keys, k, i)

\* the request of proxy.addData / updateData / deleteData for operation op
RpcFor(t, op) ==
    [st |-> "sent", action |-> op.action, t |-> t, id |-> op.id, v |-> op.v,
     res |-> NoRec]

\* processPendingSyncs continued from (k, i) until it suspends on a remote call
\* or ends (finally: syncing = false)
DrainFrom(ps, keys, k, i) ==
    LET sc == DrainScan(ps, keys, k, i)
    IN /\ pendingSyncs' = sc.ps
       /\ IF sc.done
          THEN /\ drain' = NoDrain
               /\ rpc' = NoRpc
               /\ syncing' = FALSE
               /\ UNCHANGED attempted
          ELSE LET op == sc.ps[keys[sc.k]][sc.i]
               IN /\ drain' = [on |-> TRUE, k |-> sc.k, i |-> sc.i, op |-> op]
                  /\ rpc' = RpcFor(keys[sc.k], op)
                  /\ syncing' = TRUE
                  /\ attempted' = IF track THEN attempted \cup {op.seq} ELSE attempted

\* processPendingSyncs(): skipped while a sync or drain holds the flag or
\* before initialisation
processPendingSyncs(ps, keys, initialized) ==
    IF syncing \/ ~initialized
    THEN /\ pendingSyncs' = ps
         /\ UNCHANGED <<drain, rpc, syncing, attempted>>
    ELSE DrainFrom(ps, keys, 1, 1)

\* a queue that keeps every operation
Enqueued_NoDedupe(ops, op) == Append(ops, op)

\* the de-duplication of queueSyncOperation: an 'update' replaces the queued
\* 'update' of the same id
Enqueued(ops, op) ==
    LET k == IF op.action = "update" /\ op.id # NoId
             THEN (IF \E i \in 1..Len(ops) : ops[i].action = "update" /\ ops[i].id = op.id
                   THEN CHOOSE i \in 1..Len(ops) :
                            /\ ops[i].action = "update" /\ ops[i].id = op.id
                            /\ \A j \in 1..(i-1) :
                                   ~(ops[j].action = "update" /\ ops[j].id = op.id)
                   ELSE 0)
             ELSE 0
    IN Append(IF k = 0 THEN ops ELSE RemoveAt(ops, k), op)

\* queueSyncOperation(action, type, data)
queueSyncOperation(t, op) ==
    LET keys == IF \E k \in 1..Len(psKeys) : psKeys[k] = t THEN psKeys
                ELSE Append(psKeys, t)
    IN /\ psKeys' = keys
       /\ nextSeq' = IF track THEN nextSeq + 1 ELSE nextSeq
       /\ processPendingSyncs([pendingSyncs EXCEPT ![t] = Enqueued(@, op)], keys,
                              isInitialized)

NoQueue == UNCHANGED <<pendingSyncs, psKeys, nextSeq, drain, rpc, syncing, attempted>>

\* ------------------------------------------- LoveSiteDataSync: local store
\* loadLocalData: JSON.parse of the stored value, ids of the old 'local_' format
\* replaced by generateTempId(); base is the first unused temporary number
loadLocalData(stored, base) ==
    [i \in 1..Len(stored) |->
        IF stored[i].id.kind = "local"
        THEN [stored[i] EXCEPT !.id = TempId(base + i)]
        ELSE stored[i]]

\* saveLocalData(type, data): localStorage.setItem of the serialised snapshot
saveLocalData(t, snapshot) == store' = [store EXCEPT ![t] = snapshot]

\* ----------------------------------------------- LoveSiteDataSync: init()
\* init() up to "await this.waitForLeanCloud()"
LS_init ==
    /\ manager = "LoveSiteDataSync"
    /\ initPc = "constructed"
    /\ initPc' = "waiting"
    /\ localData' = [t \in DataTypes |-> loadLocalData(store[t], nextTemp)]
    /\ nextTemp' = nextTemp + Cardinality({i \in 1..Len(store["Photo"]) :
                                              store["Photo"][i].id.kind = "local"})
    /\ UNCHANGED <<isInitialized, syncing, pendingSyncs, psKeys, drain, fetch,
                   subscribed, timers, store, remote, rpc, pushQ, nextObj, clock,
                   nextSeq, budget, foreignLeft, obsVars, sVars, mVars>>

\* waitForLeanCloud resolved: syncAllData() (returns false, isInitialized is still
\* false), setupRealtimeListeners, startAutoSync, processPendingSyncs() (skipped
\* for the same reason), isInitialized = true
LS_initReady ==
    /\ manager = "LoveSiteDataSync"
    /\ initPc = "waiting"
    /\ initPc' = "ready"
    /\ subscribed' = TRUE
    /\ timers' = timers + 1
    /\ processPendingSyncs(pendingSyncs, psKeys, isInitialized)
    /\ isInitialized' = TRUE
    /\ UNCHANGED <<localData, psKeys, fetch, store, remote, pushQ, nextTemp, nextObj,
                   clock, nextSeq, budget, foreignLeft, track, sVars, mVars>>

\* waitForLeanCloud rejected after 10 s: init() ends in its catch block
LS_initTimeout ==
    /\ manager = "LoveSiteDataSync"
    /\ initPc = "waiting"
    /\ initPc' = "failed"
    /\ UNCHANGED <<isInitialized, syncing, localData, pendingSyncs, psKeys, drain,
                   fetch, subscribed, timers, envVars, obsVars, sVars, mVars>>

\* ------------------------------------------ LoveSiteDataSync: syncAllData()
\* a syncAllData that does not look at the syncing flag
syncAllDataRejected_NoFlag == ~isInitialized

\* syncAllData() returns false at once, before any assignment, in these states
syncAllDataRejected == syncing \/ ~isInitialized

\* called by the 5-minute timer or by the page; the guard on syncing comes first
LS_syncAllData ==
    /\ manager = "LoveSiteDataSync"
    /\ IF syncAllDataRejected
       THEN UNCHANGED <<lsVars, envVars, obsVars, sVars, mVars>>
       ELSE /\ syncing' = TRUE
            /\ fetch' = [t \in DataTypes |-> [st |-> "sent", snap |-> <<>>]]
            /\ UNCHANGED <<initPc, isInitialized, localData, pendingSyncs, psKeys, drain,
                           subscribed, timers, envVars, obsVars, sVars, mVars>>

\* the remote store answers query.find(): the result is what it holds now
LS_fetchRead(t) ==
    /\ manager = "LoveSiteDataSync"
    /\ fetch[t].st = "sent"
    /\ fetch' = [fetch EXCEPT ![t] = [st |-> "read", snap |-> remote[t]]]
    /\ UNCHANGED <<initPc, isInitialized, syncing, localData, pendingSyncs, psKeys,
                   drain, subscribed, timers, envVars, obsVars, sVars, mVars>>

\* syncDataType(type) resumed after getTableData: [] when the query failed;
\* syncAllData ends (finally: syncing = false) when the last collection is merged
LS_fetchDone(t, ok) ==
    /\ manager = "LoveSiteDataSync"
    /\ fetch[t].st # "none"
    /\ ok => fetch[t].st = "read"
    /\ LET remoteData == IF ok THEN fetch[t].snap ELSE <<>>
           mergedData == mergeData(localData[t], remoteData)
           rest == [fetch EXCEPT ![t] = NoFetch]
       IN /\ localData' = [localData EXCEPT ![t] = mergedData]
          /\ saveLocalData(t, mergedData)
          /\ fetch' = rest
          /\ syncing' = (\E u \in DataTypes : rest[u].st # "none")
    /\ UNCHANGED <<initPc, isInitialized, pendingSyncs, psKeys, drain, subscribed,
                   timers, remote, rpc, pushQ, nextTemp, nextObj, clock, nextSeq,
                   budget, foreignLeft, obsVars, sVars, mVars>>

\* ------------------------------------- LoveSiteDataSync: local mutations
\* every id the page can hold: handed out by addItem or by the remote store
KnownIds == {TempId(n) : n \in 1..(nextTemp - 1)} \cup {ObjId(n) : n \in 1..(nextObj - 1)}

\* the record addItem builds: generateTempId(), createdAt now, isLocal true
newItem(v) == Rec(TempId(nextTemp), v, TRUE, clock + 1)

\* what addItem returns: null (NoRec) when it threw, else the new record.  Before
\* init() this.localData[type] is undefined and the spread throws; thr: an
\* observer registered with onDataUpdated throws
addItemReturn(v, thr) ==
    IF initPc = "constructed" \/ thr THEN NoRec ELSE newItem(v)

\* addItem(type, data)
LS_addItem(t, v, thr) ==
    /\ manager = "LoveSiteDataSync"
    /\ budget > 0
    /\ budget' = budget - 1
    /\ IF initPc = "constructed"
       THEN /\ ~thr
            /\ NoQueue
            /\ UNCHANGED <<localData, store, nextTemp, clock>>
       ELSE LET snapshot == <<newItem(v)>> \o localData[t]
            IN /\ nextTemp' = nextTemp + 1
               /\ clock' = clock + 1
               /\ localData' = [localData EXCEPT ![t] = snapshot]
               /\ saveLocalData(t, snapshot)
               /\ IF isInitialized /\ ~thr
                  THEN queueSyncOperation(t, Op("add", newItem(v).id, v,
                                                newItem(v).createdAt, nextSeq))
                  ELSE NoQueue
    /\ UNCHANGED <<initPc, isInitialized, fetch, subscribed, timers, remote, pushQ,
                   nextObj, foreignLeft, track, sVars, mVars>>

\* what updateItem returns: null when it threw, else updatedData {...data, id}
updateItemReturn(t, id, v, thr) ==
    IF initPc = "constructed" \/ thr THEN NoRec ELSE Rec(id, v, FALSE, 0)

\* updateItem(type, id, data)
LS_updateItem(t, id, v, thr) ==
    /\ manager = "LoveSiteDataSync"
    /\ budget > 0
    /\ budget' = budget - 1
    /\ IF initPc = "constructed"
       THEN /\ ~thr
            /\ NoQueue
            /\ UNCHANGED <<localData, store>>
       ELSE LET itemIndex == IndexOf(localData[t], id)
                oldItem == localData[t][itemIndex]
                snapshot == [localData[t] EXCEPT
                            ![itemIndex] = Rec(id, v, oldItem.isLocal, oldItem.createdAt)]
            IN /\ thr => itemIndex # 0
               /\ IF itemIndex # 0
                  THEN /\ localData' = [localData EXCEPT ![t] = snapshot]
                       /\ saveLocalData(t, snapshot)
                  ELSE UNCHANGED <<localData, store>>
               /\ IF isInitialized /\ ~thr
                  THEN queueSyncOperation(t, Op("update", id, v, 0, nextSeq))
                  ELSE NoQueue
    /\ UNCHANGED <<initPc, isInitialized, fetch, subscribed, timers, remote, pushQ,
                   nextTemp, nextObj, clock, foreignLeft, track, sVars, mVars>>

\* what deleteItem returns
deleteItemReturn(t, id, thr) ==
    ~(initPc = "constructed" \/ IndexOf(localData[t], id) = 0 \/ thr)

\* deleteItem(type, id)
LS_deleteItem(t, id, thr) ==
    /\ manager = "LoveSiteDataSync"
    /\ budget > 0
    /\ budget' = budget - 1
    /\ IF initPc = "constructed" \/ IndexOf(localData[t], id) = 0
       THEN /\ ~thr
            /\ NoQueue
            /\ UNCHANGED <<localData, store>>
       ELSE LET itemToDelete == localData[t][IndexOf(localData[t], id)]
                snapshot == FilterOutId(localData[t], id)
            IN /\ localData' = [localData EXCEPT ![t] = snapshot]
               /\ saveLocalData(t, snapshot)
               /\ IF isInitialized /\ ~itemToDelete.isLocal /\ ~thr
                  THEN queueSyncOperation(t, Op("delete", id, 0, 0, nextSeq))
                  ELSE NoQueue
    /\ UNCHANGED <<initPc, isInitialized, fetch, subscribed, timers, remote, pushQ,
                   nextTemp, nextObj, clock, foreignLeft, track, sVars, mVars>>

\* ------------------------------------------------------ the remote store
\* a live-query event reaches the page only through an open subscription
Pushed(t, action, rec) ==
    IF subscribed THEN pushQ \cup {[t |-> t, action |-> action, rec |-> rec]} ELSE pushQ

\* the remote store executes the write of the call in flight: save() of a new
\* object assigns objectId and createdAt; save() / destroy() of an object that
\* no longer exists is refused
ServerApply ==
    /\ rpc.st = "sent"
    /\ LET t == rpc.t
           k == IndexOf(remote[t], rpc.id)
           created == Rec(ObjId(nextObj), rpc.v, FALSE, clock + 1)
           updated == [remote[t][k] EXCEPT !.v = rpc.v]
       IN CASE rpc.action = "add" ->
                 /\ remote' = [remote EXCEPT ![t] = <<created>> \o @]
                 /\ rpc' = [rpc EXCEPT !.st = "applied", !.res = created]
                 /\ pushQ' = Pushed(t, "create", created)
                 /\ nextObj' = nextObj + 1
                 /\ clock' = clock + 1
            [] rpc.action = "update" /\ k # 0 ->
                 /\ remote' = [remote EXCEPT ![t][k] = updated]
                 /\ rpc' = [rpc EXCEPT !.st = "applied", !.res = updated]
                 /\ pushQ' = Pushed(t, "update", updated)
                 /\ UNCHANGED <<nextObj, clock>>
            [] rpc.action = "delete" /\ k # 0 ->
                 /\ remote' = [remote EXCEPT ![t] = RemoveAt(@, k)]
                 /\ rpc' = [rpc EXCEPT !.st = "applied"]
                 /\ pushQ' = Pushed(t, "delete", Rec(rpc.id, 0, FALSE, 0))
                 /\ UNCHANGED <<nextObj, clock>>
            [] OTHER ->
                 /\ rpc' = [rpc EXCEPT !.st = "notfound"]
                 /\ UNCHANGED <<remote, pushQ, nextObj, clock>>
    /\ UNCHANGED <<lsVars, store, nextTemp, nextSeq, budget, foreignLeft, obsVars, sVars, mVars>>

\* another device creates a record
ForeignCreate(t) ==
    /\ foreignLeft > 0
    /\ foreignLeft' = foreignLeft - 1
    /\ LET created == Rec(ObjId(nextObj), 1, FALSE, clock + 1)
       IN /\ remote' = [remote EXCEPT ![t] = <<created>> \o @]
          /\ pushQ' = Pushed(t, "create", created)
    /\ nextObj' = nextObj + 1
    /\ clock' = clock + 1
    /\ UNCHANGED <<lsVars, store, rpc, nextTemp, nextSeq, budget, obsVars, sVars, mVars>>

\* another device deletes a record
ForeignDelete(t, id) ==
    /\ foreignLeft > 0
    /\ IndexOf(remote[t], id) # 0
    /\ foreignLeft' = foreignLeft - 1
    /\ remote' = [remote EXCEPT ![t] = RemoveAt(@, IndexOf(@, id))]
    /\ pushQ' = Pushed(t, "delete", Rec(id, 0, FALSE, 0))
    /\ UNCHANGED <<lsVars, store, rpc, nextTemp, nextObj, clock, nextSeq, budget,
                   obsVars, sVars, mVars>>

\* 24 hours pass: every queued operation is now older than the staleness limit
Tick24h ==
    /\ \E o \in QueuedOps(pendingSyncs) : ~o.stale
    /\ pendingSyncs' = [t \in DataTypes |->
                           [i \in 1..Len(pendingSyncs[t]) |->
                               [pendingSyncs[t][i] EXCEPT !.stale = TRUE]]]
    /\ drain' = IF drain.on THEN [drain EXCEPT !.op.stale = TRUE] ELSE drain
    /\ UNCHANGED <<initPc, isInitialized, syncing, localData, psKeys, fetch, subscribed,
                   timers, envVars, obsVars, sVars, mVars>>

\* ------------------------------- LoveSiteDataSync: the queue drain resumed
\* the awaited proxy call returns.  ok: a response arrived (otherwise the call
\* failed on the network and addData/updateData return null, deleteData false);
\* thr: an observer throws in notifyDataUpdated
RpcSuccess(ok) ==
    ok /\ (rpc.st = "applied" \/ (rpc.action = "delete" /\ rpc.st = "notfound"))

\* processAddOperation / processUpdateOperation after the await: the local record
\* with the operation's id is replaced by the remote one
Reconciled(snapshot, op, remoteItem) ==
    LET localIndex == IndexOf(snapshot, op.id)
    IN IF localIndex = 0 THEN snapshot
       ELSE [snapshot EXCEPT ![localIndex] = [remoteItem EXCEPT !.isLocal = FALSE]]

\* the operations array after the attempt at index i: spliced on success, kept
\* when the attempt threw unless the operation is older than 24 hours
AfterAttempt(ops, i, op, thrown) ==
    IF thrown /\ ~op.stale THEN ops ELSE Splice(ops, i)

LS_drainResponse(ok, thr) ==
    /\ manager = "LoveSiteDataSync"
    /\ drain.on
    /\ rpc.st # "none"
    /\ ok => rpc.st \in {"applied", "notfound"}
    /\ LET t == psKeys[drain.k]
           op == drain.op
           success == RpcSuccess(ok)
           reconciles == success /\ op.action \in {"add", "update"}
                                 /\ IndexOf(localData[t], op.id) # 0
           snapshot == Reconciled(localData[t], op, rpc.res)
           ops == AfterAttempt(pendingSyncs[t], drain.i, op, thr)
           i == IF thr /\ ~op.stale THEN drain.i + 1 ELSE drain.i
       IN /\ thr => reconciles
          /\ IF reconciles
             THEN /\ localData' = [localData EXCEPT ![t] = snapshot]
                  /\ saveLocalData(t, snapshot)
             ELSE UNCHANGED <<localData, store>>
          /\ DrainFrom([pendingSyncs EXCEPT ![t] = ops], psKeys, drain.k, i)
    /\ UNCHANGED <<initPc, isInitialized, psKeys, fetch, subscribed, timers, remote,
                   pushQ, nextTemp, nextObj, clock, nextSeq, budget, foreignLeft, track, sVars, mVars>>

\* ------------------------------ LoveSiteDataSync: realtime push handlers
handleRemoteCreate(snapshot, rec) ==
    IF IndexOf(snapshot, rec.id) # 0 THEN snapshot ELSE <<rec>> \o snapshot

handleRemoteUpdate(snapshot, rec) ==
    IF IndexOf(snapshot, rec.id) = 0 THEN snapshot ELSE [snapshot EXCEPT ![IndexOf(snapshot, rec.id)] = rec]

handleRemoteDelete(snapshot, rec) ==
    IF IndexOf(snapshot, rec.id) = 0 THEN snapshot ELSE RemoveAt(snapshot, IndexOf(snapshot, rec.id))

\* the callback of setupRealtimeListeners for one delivered event
LS_push(e) ==
    /\ manager = "LoveSiteDataSync"
    /\ e \in pushQ
    /\ pushQ' = pushQ \ {e}
    /\ LET snapshot == CASE e.action = "create" -> handleRemoteCreate(localData[e.t], e.rec)
                     [] e.action = "update" -> handleRemoteUpdate(localData[e.t], e.rec)
                     [] OTHER -> handleRemoteDelete(localData[e.t], e.rec)
       IN IF snapshot # localData[e.t]
          THEN /\ localData' = [localData EXCEPT ![e.t] = snapshot]
               /\ saveLocalData(e.t, snapshot)
          ELSE UNCHANGED <<localData, store>>
    /\ UNCHANGED <<initPc, isInitialized, syncing, pendingSyncs, psKeys, drain, fetch,
                   subscribed, timers, remote, rpc, nextTemp, nextObj, clock, nextSeq,
                   budget, foreignLeft, obsVars, sVars, mVars>>

\* ------------------------------------------------------ LoveSiteDataSync
\* mergeData is not called on its own
\* startAutoSync / stopAutoSync are not called on their own
NoTimerCall ==
    /\ autoSyncInterval = 0
    /\ intervals = {}
    /\ timerCalls = 0

\* deleteData is not called on its own
NoDeleteCall ==
    /\ deleteArgs = [av |-> FALSE, id |-> NoId, outcome |-> "none"]
    /\ deleteResult = FALSE
    /\ deletePc = "none"

NoMerge ==
    /\ mergeLocal = <<>>
    /\ mergeRemote = <<>>
    /\ merged = <<>>
    /\ remerged = <<>>
    /\ mergePc = "none"
    /\ storedValue = JAbsent
    /\ loadResult = JAbsent
    /\ loadPc = "none"
    /\ NoDeleteCall
    /\ NoTimerCall

\* the page constructed no SimpleDataSync / FixedDataSync
NoSimpleManager ==
    /\ data = [t \in DataTypes |-> <<>>]
    /\ isReady = FALSE
    /\ syncStatus = "none"
    /\ retryCount = 0
    /\ useFallback = FALSE
    /\ pcInit = "none"
    /\ runs = [r \in Runs |-> NoRun]
    /\ initLoad = NoFetch
    /\ mutationTimers = 0
    /\ retryTimers = 0
    /\ calls = {}
    /\ NoMerge

InitLS ==
    /\ initPc = "constructed"
    /\ isInitialized = FALSE
    /\ syncing = FALSE
    /\ localData = [t \in DataTypes |-> <<>>]
    /\ pendingSyncs = [t \in DataTypes |-> <<>>]
    /\ psKeys = <<>>
    /\ drain = NoDrain
    /\ fetch = [t \in DataTypes |-> NoFetch]
    /\ subscribed = FALSE
    /\ timers = 0
    /\ store \in [DataTypes -> InitialStores]
    /\ remote = [t \in DataTypes |->
                    SelectSeq(store[t], LAMBDA r : isValidObjectId(r.id))]
    /\ rpc = NoRpc
    /\ pushQ = {}
    /\ nextTemp = 2
    /\ nextObj = 2
    /\ clock = 1
    /\ nextSeq = 1
    /\ budget = MaxUserOps
    /\ foreignLeft = MaxForeign
    /\ track = FALSE
    /\ attempted = {}
    /\ manager = "LoveSiteDataSync"
    /\ NoSimpleManager

NextLS ==
    \/ LS_init
    \/ LS_initReady
    \/ LS_initTimeout
    \/ LS_syncAllData
    \/ \E t \in DataTypes : LS_fetchRead(t)
    \/ \E t \in DataTypes, ok \in BOOLEAN : LS_fetchDone(t, ok)
    \/ \E t \in DataTypes, v \in AddVals, thr \in BOOLEAN : LS_addItem(t, v, thr)
    \/ \E t \in DataTypes, id \in KnownIds, v \in Vals, thr \in BOOLEAN :
           LS_updateItem(t, id, v, thr)
    \/ \E t \in DataTypes, id \in KnownIds, thr \in BOOLEAN : LS_deleteItem(t, id, thr)
    \/ \E ok \in BOOLEAN, thr \in BOOLEAN : LS_drainResponse(ok, thr)
    \/ \E e \in pushQ : LS_push(e)
    \/ ServerApply
    \/ \E t \in DataTypes : ForeignCreate(t)
    \/ \E t \in DataTypes, id \in KnownIds : ForeignDelete(t, id)
    \/ Tick24h

SpecLS == InitLS /\ [][NextLS]_vars

\* LoveSiteDataSync when every remote call completes successfully: the SDK
\* loads, every query and every write is answered without an error, no listener
\* throws; the timer of startAutoSync keeps calling syncAllData and the event
\* loop resumes every suspended call; the page may stop calling at any time
InitLSLive ==
    /\ initPc = "constructed"
    /\ isInitialized = FALSE
    /\ syncing = FALSE
    /\ localData = [t \in DataTypes |-> <<>>]
    /\ pendingSyncs = [t \in DataTypes |-> <<>>]
    /\ psKeys = <<>>
    /\ drain = NoDrain
    /\ fetch = [t \in DataTypes |-> NoFetch]
    /\ subscribed = FALSE
    /\ timers = 0
    /\ store = [t \in DataTypes |-> <<Rec(ObjId(1), 1, FALSE, 1)>>]
    /\ remote = store
    /\ rpc = NoRpc
    /\ pushQ = {}
    /\ nextTemp = 2
    /\ nextObj = 2
    /\ clock = 1
    /\ nextSeq = 1
    /\ budget = MaxUserOps
    /\ foreignLeft = 0
    /\ track = FALSE
    /\ attempted = {}
    /\ manager = "LoveSiteDataSync"
    /\ NoSimpleManager

LS_fetchSucceeds == \E t \in DataTypes : LS_fetchDone(t, TRUE)

LS_fetchAnswered == \E t \in DataTypes : LS_fetchRead(t)

LS_drainSucceeds == LS_drainResponse(TRUE, FALSE)

LS_pushDelivered == \E e \in pushQ : LS_push(e)

NextLSLive ==
    \/ LS_init
    \/ LS_initReady
    \/ LS_syncAllData
    \/ LS_fetchAnswered
    \/ LS_fetchSucceeds
    \/ \E t \in DataTypes, v \in AddVals : LS_addItem(t, v, FALSE)
    \/ \E t \in DataTypes, id \in KnownIds, v \in Vals : LS_updateItem(t, id, v, FALSE)
    \/ \E t \in DataTypes, id \in KnownIds : LS_deleteItem(t, id, FALSE)
    \/ LS_drainSucceeds
    \/ LS_pushDelivered
    \/ ServerApply

SpecLSLive ==
    /\ InitLSLive
    /\ [][NextLSLive]_vars
    /\ WF_vars(LS_init)
    /\ WF_vars(LS_initReady)
    /\ WF_vars(LS_syncAllData)
    /\ WF_vars(LS_fetchAnswered)
    /\ WF_vars(LS_fetchSucceeds)
    /\ WF_vars(LS_drainSucceeds)
    /\ WF_vars(LS_pushDelivered)
    /\ WF_vars(ServerApply)

\* ------------------------------------- LoveSiteDataSync: the queue observed
\* the same manager with the order of its remote calls recorded, over a store
\* that already holds a created record; the pushes of its own writes are still
\* on their way and no other device writes
InitLSQ ==
    /\ initPc = "constructed"
    /\ isInitialized = FALSE
    /\ syncing = FALSE
    /\ localData = [t \in DataTypes |-> <<>>]
    /\ pendingSyncs = [t \in DataTypes |-> <<>>]
    /\ psKeys = <<>>
    /\ drain = NoDrain
    /\ fetch = [t \in DataTypes |-> NoFetch]
    /\ subscribed = FALSE
    /\ timers = 0
    /\ store = [t \in DataTypes |-> <<Rec(ObjId(1), 1, FALSE, 1)>>]
    /\ remote = store
    /\ rpc = NoRpc
    /\ pushQ = {}
    /\ nextTemp = 2
    /\ nextObj = 2
    /\ clock = 1
    /\ nextSeq = 1
    /\ budget = MaxQueueOps
    /\ foreignLeft = 0
    /\ track = TRUE
    /\ attempted = {}
    /\ manager = "LoveSiteDataSync"
    /\ NoSimpleManager

NextLSQ ==
    \/ LS_init
    \/ LS_initReady
    \/ \E t \in DataTypes, v \in AddVals, thr \in BOOLEAN : LS_addItem(t, v, thr)
    \/ \E t \in DataTypes, id \in KnownIds, v \in Vals, thr \in BOOLEAN :
           LS_updateItem(t, id, v, thr)
    \/ \E t \in DataTypes, id \in KnownIds, thr \in BOOLEAN : LS_deleteItem(t, id, thr)
    \/ \E ok \in BOOLEAN, thr \in BOOLEAN : LS_drainResponse(ok, thr)
    \/ ServerApply

SpecLSQ == InitLSQ /\ [][NextLSQ]_vars

\* ========================================================= SimpleDataSync
\* a record of this.data: isNew / isModified / isDeleted mark the pending change
SRec(id, v, isLocal, isNew, isModified, isDeleted) ==
    [id |-> id, v |-> v, isLocal |-> isLocal, isNew |-> isNew,
     isModified |-> isModified, isDeleted |-> isDeleted]

\* results.map(result => ({id, ...result.toJSON(), isLocal: false}))
FromRemote(results) ==
    [i \in 1..Len(results) |->
        SRec(results[i].id, results[i].v, FALSE, FALSE, FALSE, FALSE)]

\* this.maxRetries
maxRetries == 3

\* the collection the model follows
TheType == dataTypes[1]

\* lsVars and the parts of the environment only LoveSiteDataSync uses
lsOnly == <<lsVars, rpc, pushQ, nextSeq, obsVars, mVars>>

\* typeof AV !== 'undefined': the SDK script has been loaded ("failed": it could
\* not be)
AVDefined == pcInit \notin {"sdk", "failed"}

\* saveLocalBackup(): the whole of this.data is written to 'loveSiteBackup'
saveLocalBackup(d) == store' = d

\* loadLocalBackup(): a stored collection is used only where this.data is empty
loadLocalBackup(d, stored) ==
    [t \in DataTypes |-> IF Len(stored[t]) > 0 /\ Len(d[t]) = 0 THEN stored[t] ELSE d[t]]

\* saveAllLocalChanges: the branch taken for one captured item
NeedsUpload(item) == item.isNew \/ item.isModified \/ item.isDeleted

\* the first index from j on whose item issues a remote call, 0 if none
NextUpload(items, j) ==
    IF \E k \in j..Len(items) : NeedsUpload(items[k])
    THEN CHOOSE k \in j..Len(items) :
             NeedsUpload(items[k]) /\ \A m \in j..(k-1) : ~NeedsUpload(items[m])
    ELSE 0

\* a failing sync that schedules a retry whatever retryCount is
SyncFailed_AlwaysRetry(r, d, rt) ==
    /\ runs' = [runs EXCEPT ![r] = NoRun]
    /\ syncStatus' = "error"
    /\ data' = d
    /\ retryCount' = retryCount + 1
    /\ retryTimers' = rt + 1
    /\ UNCHANGED store

\* the catch block of syncAllData: status 'error' and, while retryCount is below
\* maxRetries, one more 3-second retry timer; rt: the retry timers pending
SyncFailed(r, d, rt) ==
    /\ runs' = [runs EXCEPT ![r] = NoRun]
    /\ syncStatus' = "error"
    /\ data' = d
    /\ IF retryCount < maxRetries
       THEN retryCount' = retryCount + 1 /\ retryTimers' = rt + 1
       ELSE retryCount' = retryCount /\ retryTimers' = rt
    /\ UNCHANGED store

\* syncAllData run r continued inside saveAllLocalChanges at item j, up to its
\* next await: the remote write of an item, or the queries of loadAllData.
\* Without the SDK a write throws (the run fails) and every query throws inside
\* loadDataType, so loadAllData and the run complete at once
ContinueRun(r, items, j, d, rt) ==
    LET k == NextUpload(items, j)
    IN IF k # 0
       THEN IF AVDefined
            THEN /\ runs' = [runs EXCEPT ![r] =
                                [st |-> "upload", items |-> items, j |-> k, snap |-> <<>>]]
                 /\ syncStatus' = "syncing"
                 /\ data' = d
                 /\ retryTimers' = rt
                 /\ UNCHANGED <<retryCount, store>>
            ELSE SyncFailed(r, d, rt)
       ELSE IF AVDefined
            THEN /\ runs' = [runs EXCEPT ![r] =
                                [st |-> "sent", items |-> <<>>, j |-> 0, snap |-> <<>>]]
                 /\ syncStatus' = "syncing"
                 /\ data' = d
                 /\ retryTimers' = rt
                 /\ UNCHANGED <<retryCount, store>>
            ELSE /\ runs' = [runs EXCEPT ![r] = NoRun]
                 /\ syncStatus' = "ready"
                 /\ retryCount' = 0
                 /\ data' = d
                 /\ retryTimers' = rt
                 /\ saveLocalBackup(d)

\* ------------------------------------------------ SimpleDataSync: init()
\* loadLeanCloudSDK resolved; fixStorageAdapter and AV.init have run
SDS_sdkLoaded ==
    /\ manager = "SimpleDataSync"
    /\ pcInit = "sdk"
    /\ pcInit' = "verify"
    /\ UNCHANGED <<manager, calls, data, isReady, syncStatus, retryCount, useFallback, runs,
                   initLoad, mutationTimers, retryTimers, envVars, lsVars, obsVars, mVars>>

\* loadLeanCloudSDK rejected (script error or the 5-second timeout): the catch
\* block of init()
SDS_sdkFailed ==
    /\ manager = "SimpleDataSync"
    /\ pcInit = "sdk"
    /\ pcInit' = "failed"
    /\ syncStatus' = "error"
    /\ data' = loadLocalBackup(data, store)
    /\ UNCHANGED <<manager, calls, isReady, retryCount, useFallback, runs, initLoad,
                   mutationTimers, retryTimers, envVars, lsVars, obsVars, mVars>>

\* initializeLeanCloud and verifyLeanCloudInitialization are over (a failed
\* verification is only logged): init() enters loadAllData
SDS_verified ==
    /\ manager = "SimpleDataSync"
    /\ pcInit = "verify"
    /\ pcInit' = "load"
    /\ syncStatus' = "syncing"
    /\ initLoad' = [st |-> "sent", snap |-> <<>>]
    /\ UNCHANGED <<manager, calls, data, isReady, retryCount, useFallback, runs,
                   mutationTimers, retryTimers, envVars, lsVars, obsVars, mVars>>

\* -------------------------------- SimpleDataSync: loadAllData / loadDataType
\* the remote store answers the query of init() (o = 0) or of run o
SDS_fetchRead(o) ==
    /\ manager = "SimpleDataSync"
    /\ IF o = 0
       THEN /\ initLoad.st = "sent"
            /\ initLoad' = [st |-> "read", snap |-> remote[TheType]]
            /\ UNCHANGED runs
       ELSE /\ runs[o].st = "sent"
            /\ runs' = [runs EXCEPT ![o].st = "read", ![o].snap = remote[TheType]]
            /\ UNCHANGED initLoad
    /\ UNCHANGED <<manager, calls, data, isReady, syncStatus, retryCount, useFallback, pcInit,
                   mutationTimers, retryTimers, envVars, lsVars, obsVars, mVars>>

\* loadDataType resumed: a successful query replaces this.data[type], a failed
\* one leaves it; loadAllData then sets 'ready' and saves the backup; its caller
\* (init, o = 0, or syncAllData run o) goes on to its end
SDS_fetchDone(o, ok) ==
    /\ manager = "SimpleDataSync"
    /\ LET f == IF o = 0 THEN initLoad ELSE runs[o]
           loaded == IF ok THEN [data EXCEPT ![TheType] = FromRemote(f.snap)] ELSE data
       IN /\ f.st \in {"sent", "read"}
          /\ ok => f.st = "read"
          /\ saveLocalBackup(loaded)
          /\ data' = IF o = 0 THEN loadLocalBackup(loaded, loaded) ELSE loaded
          /\ syncStatus' = "ready"
          /\ retryCount' = 0
          /\ IF o = 0
             THEN /\ initLoad' = NoFetch
                  /\ isReady' = TRUE
                  /\ pcInit' = "done"
                  /\ UNCHANGED runs
             ELSE /\ runs' = [runs EXCEPT ![o] = NoRun]
                  /\ UNCHANGED <<initLoad, isReady, pcInit>>
    /\ UNCHANGED <<manager, calls, useFallback, mutationTimers, retryTimers, remote, rpc, pushQ,
                   nextTemp, nextObj, clock, nextSeq, budget, foreignLeft, lsVars, obsVars, mVars>>

\* ------------------------------------------ SimpleDataSync: syncAllData()
\* syncAllData() returns false at once in this state
NeverRejected == FALSE

SDS_syncRejected == syncStatus = "syncing"

\* who calls syncAllData(): the page (forceSync), the 5-minute timer of
\* startAutoSync (only in status 'ready'), a 3-second retry timer, or a
\* 1-second timer set by a mutation
Triggers == {"force", "periodic", "retry", "mutation"}

Triggered(trigger) ==
    /\ trigger = "force" => budget > 0
    /\ trigger = "periodic" => pcInit = "done" /\ syncStatus = "ready"
    /\ trigger = "retry" => retryTimers > 0
    /\ trigger = "mutation" => mutationTimers > 0
    /\ budget' = IF trigger = "force" THEN budget - 1 ELSE budget
    /\ mutationTimers' = IF trigger = "mutation" THEN mutationTimers - 1 ELSE mutationTimers

\* the retry timers left when the trigger is one of them
TimersLeft(trigger) == IF trigger = "retry" THEN retryTimers - 1 ELSE retryTimers

\* the lowest free run
FreeRun == CHOOSE r \in Runs : runs[r].st = "idle" /\ \A q \in 1..(r-1) : runs[q].st # "idle"

SDS_syncAllData(trigger) ==
    /\ manager = "SimpleDataSync"
    /\ Triggered(trigger)
    /\ IF SDS_syncRejected
       THEN /\ retryTimers' = TimersLeft(trigger)
            /\ UNCHANGED <<data, syncStatus, retryCount, runs, store>>
       ELSE /\ \E r \in Runs : runs[r].st = "idle"
            /\ ContinueRun(FreeRun,
                           SelectSeq(data[TheType], LAMBDA item : item.isLocal), 1,
                           data, TimersLeft(trigger))
    /\ UNCHANGED <<manager, calls, isReady, useFallback, pcInit, initLoad, remote, rpc, pushQ,
                   nextTemp, nextObj, clock, nextSeq, foreignLeft, lsVars, obsVars, mVars>>

\* the awaited remote write of items[j] of run r returns.  ok: the remote store
\* executed it; an update or delete of an id the store does not hold is refused
SDS_uploadDone(r, ok) ==
    /\ manager = "SimpleDataSync"
    /\ runs[r].st = "upload"
    /\ LET item == runs[r].items[runs[r].j]
           t == TheType
           index == IndexOf(data[t], item.id)
           k == IndexOf(remote[t], item.id)
           created == Rec(ObjId(nextObj), item.v, FALSE, clock + 1)
       IN /\ ok /\ ~item.isNew => k # 0
          /\ IF ~ok
             THEN /\ SyncFailed(r, data, retryTimers)
                  /\ UNCHANGED <<remote, nextObj, clock>>
             ELSE IF item.isNew
             THEN /\ remote' = [remote EXCEPT ![t] = <<created>> \o @]
                  /\ nextObj' = nextObj + 1
                  /\ clock' = clock + 1
                  /\ ContinueRun(r, runs[r].items, runs[r].j + 1,
                                 IF index = 0 THEN data
                                 ELSE [data EXCEPT ![t][index] =
                                          [@ EXCEPT !.id = created.id, !.isLocal = FALSE,
                                                    !.isNew = FALSE]],
                                 retryTimers)
             ELSE IF item.isModified
             THEN /\ remote' = [remote EXCEPT ![t][k] = [@ EXCEPT !.v = item.v]]
                  /\ UNCHANGED <<nextObj, clock>>
                  /\ ContinueRun(r, runs[r].items, runs[r].j + 1,
                                 IF index = 0 THEN data
                                 ELSE [data EXCEPT ![t][index] =
                                          [@ EXCEPT !.isLocal = FALSE, !.isModified = FALSE]],
                                 retryTimers)
             ELSE /\ remote' = [remote EXCEPT ![t] = RemoveAt(@, k)]
                  /\ UNCHANGED <<nextObj, clock>>
                  /\ ContinueRun(r, runs[r].items, runs[r].j + 1,
                                 [data EXCEPT ![t] = FilterOutId(@, item.id)],
                                 retryTimers)
    /\ UNCHANGED <<manager, calls, isReady, useFallback, pcInit, initLoad, mutationTimers, rpc,
                   pushQ, nextTemp, nextSeq, budget, foreignLeft, lsVars, obsVars, mVars>>

\* ----------------------------------------- SimpleDataSync: local mutations
\* addItem(type, itemData): null (nothing changes) unless isReady
SDS_addItemReturn(v) ==
    IF isReady THEN SRec(TempId(nextTemp), v, TRUE, TRUE, FALSE, FALSE) ELSE NoRec

SDS_addItem(t, v) ==
    /\ manager = "SimpleDataSync"
    /\ budget > 0
    /\ budget' = budget - 1
    /\ IF ~isReady
       THEN UNCHANGED <<data, store, nextTemp, mutationTimers>>
       ELSE /\ data' = [data EXCEPT ![t] = <<SDS_addItemReturn(v)>> \o @]
            /\ saveLocalBackup(data')
            /\ nextTemp' = nextTemp + 1
            /\ mutationTimers' = mutationTimers + 1
    /\ UNCHANGED <<manager, calls, isReady, syncStatus, retryCount, useFallback, pcInit, runs,
                   initLoad, retryTimers, remote, rpc, pushQ, nextObj, clock, nextSeq,
                   foreignLeft, lsVars, obsVars, mVars>>

\* updateItem(type, id, itemData): null unless isReady and the id is in the snapshot
SDS_updateItem(t, id, v) ==
    /\ manager = "SimpleDataSync"
    /\ budget > 0
    /\ budget' = budget - 1
    /\ IF ~isReady \/ IndexOf(data[t], id) = 0
       THEN UNCHANGED <<data, store, mutationTimers>>
       ELSE /\ data' = [data EXCEPT ![t][IndexOf(data[t], id)] =
                           [@ EXCEPT !.v = v, !.isLocal = TRUE, !.isModified = TRUE,
                                     !.isNew = FALSE]]
            /\ saveLocalBackup(data')
            /\ mutationTimers' = mutationTimers + 1
    /\ UNCHANGED <<manager, calls, isReady, syncStatus, retryCount, useFallback, pcInit, runs,
                   initLoad, retryTimers, remote, rpc, pushQ, nextTemp, nextObj, clock,
                   nextSeq, foreignLeft, lsVars, obsVars, mVars>>

\* deleteItem(type, id): a 'temp_' record is removed at once, any other record is
\* marked isDeleted
SDS_deleteItem(t, id) ==
    /\ manager = "SimpleDataSync"
    /\ budget > 0
    /\ budget' = budget - 1
    /\ IF ~isReady \/ IndexOf(data[t], id) = 0
       THEN UNCHANGED <<data, store, mutationTimers>>
       ELSE /\ data' = IF startsWithTemp(id)
                       THEN [data EXCEPT ![t] = RemoveAt(@, IndexOf(@, id))]
                       ELSE [data EXCEPT ![t][IndexOf(data[t], id)] =
                                [@ EXCEPT !.isLocal = TRUE, !.isDeleted = TRUE,
                                          !.isModified = FALSE, !.isNew = FALSE]]
            /\ saveLocalBackup(data')
            /\ mutationTimers' = mutationTimers + 1
    /\ UNCHANGED <<manager, calls, isReady, syncStatus, retryCount, useFallback, pcInit, runs,
                   initLoad, retryTimers, remote, rpc, pushQ, nextTemp, nextObj, clock,
                   nextSeq, foreignLeft, lsVars, obsVars, mVars>>

\* --------------------------------------------------------- SimpleDataSync
\* what an earlier session can have left in 'loveSiteBackup'
InitialBackups ==
    { <<>>,
      <<SRec(TempId(1), 1, TRUE, TRUE, FALSE, FALSE),
        SRec(ObjId(1), 1, FALSE, FALSE, FALSE, FALSE)>> }

\* no LoveSiteDataSync was constructed
NoLoveSiteDataSync ==
    /\ initPc = "none"
    /\ isInitialized = FALSE
    /\ syncing = FALSE
    /\ localData = [t \in DataTypes |-> <<>>]
    /\ pendingSyncs = [t \in DataTypes |-> <<>>]
    /\ psKeys = <<>>
    /\ drain = NoDrain
    /\ fetch = [t \in DataTypes |-> NoFetch]
    /\ subscribed = FALSE
    /\ timers = 0
    /\ rpc = NoRpc
    /\ pushQ = {}
    /\ nextSeq = 1
    /\ track = FALSE
    /\ attempted = {}

\* the state when the constructor returns: init() waits for the SDK script
InitSDS ==
    /\ manager = "SimpleDataSync"
    /\ data = [t \in DataTypes |-> <<>>]
    /\ isReady = FALSE
    /\ syncStatus = "initializing"
    /\ retryCount = 0
    /\ useFallback = FALSE
    /\ pcInit = "sdk"
    /\ runs = [r \in Runs |-> NoRun]
    /\ initLoad = NoFetch
    /\ mutationTimers = 0
    /\ retryTimers = 0
    /\ calls = {}
    /\ NoMerge
    /\ store \in [DataTypes -> InitialBackups]
    /\ remote = [t \in DataTypes |->
                    [i \in 1..Len(SelectSeq(store[t], LAMBDA r : isValidObjectId(r.id))) |->
                        Rec(ObjId(i), 1, FALSE, 1)]]
    /\ nextTemp = 2
    /\ nextObj = 2
    /\ clock = 1
    /\ budget = MaxUserOps
    /\ foreignLeft = MaxForeign
    /\ NoLoveSiteDataSync

NextSDS ==
    \/ SDS_sdkLoaded
    \/ SDS_sdkFailed
    \/ SDS_verified
    \/ \E o \in {0} \cup Runs : SDS_fetchRead(o)
    \/ \E o \in {0} \cup Runs, ok \in BOOLEAN : SDS_fetchDone(o, ok)
    \/ \E trigger \in Triggers : SDS_syncAllData(trigger)
    \/ \E r \in Runs, ok \in BOOLEAN : SDS_uploadDone(r, ok)
    \/ \E t \in DataTypes, v \in AddVals : SDS_addItem(t, v)
    \/ \E t \in DataTypes, id \in KnownIds, v \in Vals : SDS_updateItem(t, id, v)
    \/ \E t \in DataTypes, id \in KnownIds : SDS_deleteItem(t, id)
    \/ \E t \in DataTypes : ForeignCreate(t)
    \/ \E t \in DataTypes, id \in KnownIds : ForeignDelete(t, id)

SpecSDS == InitSDS /\ [][NextSDS]_vars

\* ========================================================== FixedDataSync
\* 'loveSiteBackup' as FixedDataSync writes it: {data, timestamp, useFallback};
\* present is FALSE while the key has never been written
BackupKeys == DataTypes \cup {"useFallback", "present"}

Backup(d, fb) ==
    [k \in BackupKeys |->
        IF k = "useFallback" THEN fb ELSE IF k = "present" THEN TRUE ELSE d[k]]

NoBackup ==
    [k \in BackupKeys |-> IF k \in {"useFallback", "present"} THEN FALSE ELSE <<>>]

\* saveLocalBackup()
FDS_saveLocalBackup(d, fb) == store' = Backup(d, fb)

\* loadLocalBackup(): this.data and this.useFallback are taken from the backup
\* when there is one
FDS_loadLocalBackup(d, fb) ==
    IF store["present"]
    THEN [data |-> [t \in DataTypes |-> store[t]], useFallback |-> store["useFallback"]]
    ELSE [data |-> d, useFallback |-> fb]

\* syncAllData() returns false at once in these states
FDS_syncRejected == syncStatus = "syncing" \/ useFallback

\* syncAllData run r continued inside syncLocalChanges at item j (every local
\* item issues a write; without the SDK each one throws and is skipped), then
\* loadAllData: in fallback mode or without the SDK loadDataType returns [] at
\* once, so loadAllData saves the backup and the run ends
FDS_ContinueRun(r, items, j, d) ==
    IF j <= Len(items) /\ AVDefined
    THEN /\ runs' = [runs EXCEPT ![r] =
                        [st |-> "upload", items |-> items, j |-> j, snap |-> <<>>]]
         /\ syncStatus' = "syncing"
         /\ data' = d
         /\ UNCHANGED store
    ELSE IF AVDefined /\ ~useFallback
    THEN /\ runs' = [runs EXCEPT ![r] =
                        [st |-> "sent", items |-> <<>>, j |-> 0, snap |-> <<>>]]
         /\ syncStatus' = "syncing"
         /\ data' = d
         /\ UNCHANGED store
    ELSE /\ runs' = [runs EXCEPT ![r] = NoRun]
         /\ syncStatus' = "ready"
         /\ data' = d
         /\ FDS_saveLocalBackup(d, useFallback)

\* -------------------------------------------------- FixedDataSync: init()
\* loadLeanCloudSDKWithFallback resolved; initializeLeanCloudWithFix has called
\* AV.init and awaits verifyLeanCloudInitialization
FDS_sdkLoaded ==
    /\ manager = "FixedDataSync"
    /\ pcInit = "sdk"
    /\ pcInit' = "verify"
    /\ UNCHANGED <<manager, calls, data, isReady, syncStatus, retryCount, useFallback, runs,
                   initLoad, mutationTimers, retryTimers, envVars, lsVars, obsVars, mVars>>

\* every CDN source failed: the catch block of init()
FDS_sdkFailed ==
    /\ manager = "FixedDataSync"
    /\ pcInit = "sdk"
    /\ pcInit' = "failed"
    /\ syncStatus' = "error"
    /\ data' = FDS_loadLocalBackup(data, useFallback).data
    /\ useFallback' = FDS_loadLocalBackup(data, useFallback).useFallback
    /\ UNCHANGED <<manager, calls, isReady, retryCount, runs, initLoad, mutationTimers,
                   retryTimers, envVars, lsVars, obsVars, mVars>>

\* verifyLeanCloudInitialization returned (ok) or threw; confirmed is the
\* user's answer to confirm() about the local storage mode
FDS_verifyDone(ok, confirmed) ==
    /\ manager = "FixedDataSync"
    /\ pcInit = "verify"
    /\ ok => confirmed
    /\ IF ok
       THEN /\ isReady' = TRUE
            /\ pcInit' = "load"
            /\ syncStatus' = "syncing"
            /\ initLoad' = [st |-> "sent", snap |-> <<>>]
            /\ UNCHANGED <<data, useFallback, store>>
       ELSE IF confirmed
       THEN /\ useFallback' = TRUE
            /\ isReady' = TRUE
            /\ pcInit' = "done"
            /\ syncStatus' = "ready"
            /\ FDS_saveLocalBackup(data, TRUE)
            /\ UNCHANGED <<data, initLoad>>
       ELSE /\ pcInit' = "declined"
            /\ syncStatus' = "error"
            /\ data' = FDS_loadLocalBackup(data, useFallback).data
            /\ useFallback' = FDS_loadLocalBackup(data, useFallback).useFallback
            /\ UNCHANGED <<isReady, initLoad, store>>
    /\ UNCHANGED <<manager, calls, retryCount, runs, mutationTimers, retryTimers, remote, rpc,
                   pushQ, nextTemp, nextObj, clock, nextSeq, budget, foreignLeft, lsVars,
                   obsVars, mVars>>

\* --------------------------------- FixedDataSync: loadAllData / loadDataType
FDS_fetchRead(o) ==
    /\ manager = "FixedDataSync"
    /\ IF o = 0
       THEN /\ initLoad.st = "sent"
            /\ initLoad' = [st |-> "read", snap |-> remote[TheType]]
            /\ UNCHANGED runs
       ELSE /\ runs[o].st = "sent"
            /\ runs' = [runs EXCEPT ![o].st = "read", ![o].snap = remote[TheType]]
            /\ UNCHANGED initLoad
    /\ UNCHANGED <<manager, calls, data, isReady, syncStatus, retryCount, useFallback, pcInit,
                   mutationTimers, retryTimers, envVars, lsVars, obsVars, mVars>>

Outcomes == {"ok", "error", "adapter"}

\* loadDataType resumed.  "ok": the query result replaces this.data[type];
\* "adapter": the query threw a storage adapter error, which switches to the
\* fallback mode and loads the backup; "error": any other failure.  loadAllData
\* then sets 'ready' and saves the backup, and its caller ends
FDS_fetchDone(o, outcome) ==
    /\ manager = "FixedDataSync"
    /\ LET f == IF o = 0 THEN initLoad ELSE runs[o]
           switched == FDS_loadLocalBackup(data, TRUE)
           d == IF outcome = "ok" THEN [data EXCEPT ![TheType] = f.snap]
                ELSE IF outcome = "adapter" /\ ~useFallback THEN switched.data
                ELSE data
           fb == IF outcome = "adapter" /\ ~useFallback THEN switched.useFallback
                 ELSE useFallback
       IN /\ f.st \in {"sent", "read"}
          /\ outcome = "ok" => f.st = "read"
          /\ data' = d
          /\ useFallback' = fb
          /\ FDS_saveLocalBackup(d, fb)
          /\ syncStatus' = "ready"
          /\ IF o = 0
             THEN /\ initLoad' = NoFetch
                  /\ pcInit' = "done"
                  /\ UNCHANGED runs
             ELSE /\ runs' = [runs EXCEPT ![o] = NoRun]
                  /\ UNCHANGED <<initLoad, pcInit>>
    /\ UNCHANGED <<manager, calls, isReady, retryCount, mutationTimers, retryTimers, remote, rpc,
                   pushQ, nextTemp, nextObj, clock, nextSeq, budget, foreignLeft, lsVars,
                   obsVars, mVars>>

\* ------------------------------------------- FixedDataSync: syncAllData()
\* called by the page (forceSync)
FDS_syncAllData ==
    /\ manager = "FixedDataSync"
    /\ budget > 0
    /\ budget' = budget - 1
    /\ IF FDS_syncRejected
       THEN UNCHANGED <<data, syncStatus, runs, store>>
       ELSE /\ \E r \in Runs : runs[r].st = "idle"
            /\ FDS_ContinueRun(FreeRun,
                               SelectSeq(data[TheType], LAMBDA item : item.isLocal), 1,
                               data)
    /\ UNCHANGED <<manager, calls, isReady, retryCount, useFallback, pcInit, initLoad,
                   mutationTimers, retryTimers, remote, rpc, pushQ, nextTemp, nextObj,
                   clock, nextSeq, foreignLeft, lsVars, obsVars, mVars>>

\* the awaited write of items[j] in syncLocalChanges returns: addItemToCloud for
\* a 'local_' id, updateItemInCloud otherwise (refused for an id the store does
\* not hold).  On success item.isLocal = false is set on the captured object,
\* which is still the snapshot's record unless that was replaced meanwhile
FDS_uploadDone(r, ok) ==
    /\ manager = "FixedDataSync"
    /\ runs[r].st = "upload"
    /\ LET item == runs[r].items[runs[r].j]
           t == TheType
           index == IndexOf(data[t], item.id)
           k == IndexOf(remote[t], item.id)
           created == Rec(ObjId(nextObj), item.v, FALSE, clock + 1)
           marked == IF index # 0 /\ data[t][index] = item
                     THEN [data EXCEPT ![t][index].isLocal = FALSE]
                     ELSE data
       IN /\ ok /\ item.id.kind # "local" => k # 0
          /\ IF ~ok
             THEN /\ FDS_ContinueRun(r, runs[r].items, runs[r].j + 1, data)
                  /\ UNCHANGED <<remote, nextObj, clock>>
             ELSE IF item.id.kind = "local"
             THEN /\ remote' = [remote EXCEPT ![t] = <<created>> \o @]
                  /\ nextObj' = nextObj + 1
                  /\ clock' = clock + 1
                  /\ FDS_ContinueRun(r, runs[r].items, runs[r].j + 1, marked)
             ELSE /\ remote' = [remote EXCEPT ![t][k] = [@ EXCEPT !.v = item.v]]
                  /\ UNCHANGED <<nextObj, clock>>
                  /\ FDS_ContinueRun(r, runs[r].items, runs[r].j + 1, marked)
    /\ UNCHANGED <<manager, calls, isReady, retryCount, useFallback, pcInit, initLoad,
                   mutationTimers, retryTimers, rpc, pushQ, nextTemp, nextSeq, budget,
                   foreignLeft, lsVars, obsVars, mVars>>

\* ------------------------------------------ FixedDataSync: local mutations
\* a remote write awaited by addItem / updateItem / deleteItem
Call(action, t, id, v) == [action |-> action, t |-> t, id |-> id, v |-> v]

\* the record addItem builds: generateId() gives 'local_...', isLocal is
\* this.useFallback
FDS_newItem(v) == Rec(LocalId(nextTemp), v, useFallback, clock + 1)

\* what addItem returns: null unless isReady
FDS_addItemReturn(v) == IF isReady THEN FDS_newItem(v) ELSE NoRec

\* addItem(type, itemData) up to its await of addItemToCloud
FDS_addItem(t, v) ==
    /\ manager = "FixedDataSync"
    /\ budget > 0
    /\ budget' = budget - 1
    /\ IF ~isReady
       THEN UNCHANGED <<data, store, nextTemp, clock, calls>>
       ELSE /\ data' = [data EXCEPT ![t] = <<FDS_newItem(v)>> \o @]
            /\ FDS_saveLocalBackup(data', useFallback)
            /\ nextTemp' = nextTemp + 1
            /\ clock' = clock + 1
            /\ calls' = IF useFallback THEN calls
                        ELSE calls \cup {Call("add", t, FDS_newItem(v).id, v)}
    /\ UNCHANGED <<manager, isReady, syncStatus, retryCount, useFallback, pcInit, runs,
                   initLoad, mutationTimers, retryTimers, remote, rpc, pushQ, nextObj,
                   nextSeq, foreignLeft, lsVars, obsVars, mVars>>

\* updateItem(type, id, itemData) up to its await of updateItemInCloud
FDS_updateItem(t, id, v) ==
    /\ manager = "FixedDataSync"
    /\ budget > 0
    /\ budget' = budget - 1
    /\ IF ~isReady \/ IndexOf(data[t], id) = 0
       THEN UNCHANGED <<data, store, calls>>
       ELSE /\ data' = [data EXCEPT ![t][IndexOf(data[t], id)].v = v]
            /\ FDS_saveLocalBackup(data', useFallback)
            /\ calls' = IF useFallback \/ data[t][IndexOf(data[t], id)].isLocal
                        THEN calls
                        ELSE calls \cup {Call("update", t, id, v)}
    /\ UNCHANGED <<manager, isReady, syncStatus, retryCount, useFallback, pcInit, runs,
                   initLoad, mutationTimers, retryTimers, remote, rpc, pushQ, nextTemp,
                   nextObj, clock, nextSeq, foreignLeft, lsVars, obsVars, mVars>>

\* deleteItem(type, id) up to its await of deleteItemFromCloud
FDS_deleteItem(t, id) ==
    /\ manager = "FixedDataSync"
    /\ budget > 0
    /\ budget' = budget - 1
    /\ IF ~isReady \/ IndexOf(data[t], id) = 0
       THEN UNCHANGED <<data, store, calls>>
       ELSE /\ data' = [data EXCEPT ![t] = RemoveAt(@, IndexOf(@, id))]
            /\ FDS_saveLocalBackup(data', useFallback)
            /\ calls' = IF useFallback \/ data[t][IndexOf(data[t], id)].isLocal
                        THEN calls
                        ELSE calls \cup {Call("delete", t, id, 0)}
    /\ UNCHANGED <<manager, isReady, syncStatus, retryCount, useFallback, pcInit, runs,
                   initLoad, mutationTimers, retryTimers, remote, rpc, pushQ, nextTemp,
                   nextObj, clock, nextSeq, foreignLeft, lsVars, obsVars, mVars>>

\* an awaited write returns: the mutation only shows a notification (addItem
\* sets newItem.isLocal = false, which it already is outside the fallback mode).
\* ok: the remote store executed the write
FDS_callDone(c, ok) ==
    /\ manager = "FixedDataSync"
    /\ c \in calls
    /\ calls' = calls \ {c}
    /\ LET k == IndexOf(remote[c.t], c.id)
           created == Rec(ObjId(nextObj), c.v, FALSE, clock + 1)
       IN /\ ok /\ c.action # "add" => k # 0
          /\ IF ~ok
             THEN UNCHANGED <<remote, nextObj, clock>>
             ELSE IF c.action = "add"
             THEN /\ remote' = [remote EXCEPT ![c.t] = <<created>> \o @]
                  /\ nextObj' = nextObj + 1
                  /\ clock' = clock + 1
             ELSE IF c.action = "update"
             THEN /\ remote' = [remote EXCEPT ![c.t][k] = [@ EXCEPT !.v = c.v]]
                  /\ UNCHANGED <<nextObj, clock>>
             ELSE /\ remote' = [remote EXCEPT ![c.t] = RemoveAt(@, k)]
                  /\ UNCHANGED <<nextObj, clock>>
    /\ UNCHANGED <<manager, data, isReady, syncStatus, retryCount, useFallback, pcInit,
                   runs, initLoad, mutationTimers, retryTimers, store, rpc, pushQ,
                   nextTemp, nextSeq, budget, foreignLeft, lsVars, obsVars, mVars>>

\* ---------------------------------------------------------- FixedDataSync
\* every id the page can hold
FDS_KnownIds ==
    {LocalId(n) : n \in 1..(nextTemp - 1)} \cup {ObjId(n) : n \in 1..(nextObj - 1)}

\* what an earlier session can have left in 'loveSiteBackup': nothing, the
\* backup of a session in cloud mode, the backup of a session in fallback mode,
\* or a backup written by SimpleDataSync (same key, no useFallback field)
FDS_InitialBackups ==
    { NoBackup,
      Backup([t \in DataTypes |-> <<Rec(ObjId(1), 1, FALSE, 1)>>], FALSE),
      Backup([t \in DataTypes |-> <<Rec(LocalId(1), 1, TRUE, 1)>>], TRUE),
      Backup([t \in DataTypes |-> <<Rec(TempId(1), 1, TRUE, 1)>>], FALSE) }

\* the state when the constructor returns: init() waits for the SDK script
InitFDS ==
    /\ manager = "FixedDataSync"
    /\ data = [t \in DataTypes |-> <<>>]
    /\ isReady = FALSE
    /\ syncStatus = "initializing"
    /\ retryCount = 0
    /\ useFallback = FALSE
    /\ pcInit = "sdk"
    /\ runs = [r \in Runs |-> NoRun]
    /\ initLoad = NoFetch
    /\ mutationTimers = 0
    /\ retryTimers = 0
    /\ calls = {}
    /\ NoMerge
    /\ store \in FDS_InitialBackups
    /\ remote = [t \in DataTypes |->
                    SelectSeq(store[t], LAMBDA r : isValidObjectId(r.id))]
    /\ nextTemp = 2
    /\ nextObj = 2
    /\ clock = 1
    /\ budget = MaxUserOps
    /\ foreignLeft = MaxForeign
    /\ NoLoveSiteDataSync

NextFDS ==
    \/ FDS_sdkLoaded
    \/ FDS_sdkFailed
    \/ \E ok \in BOOLEAN, confirmed \in BOOLEAN : FDS_verifyDone(ok, confirmed)
    \/ \E o \in {0} \cup Runs : FDS_fetchRead(o)
    \/ \E o \in {0} \cup Runs, outcome \in Outcomes : FDS_fetchDone(o, outcome)
    \/ FDS_syncAllData
    \/ \E r \in Runs, ok \in BOOLEAN : FDS_uploadDone(r, ok)
    \/ \E t \in DataTypes, v \in AddVals : FDS_addItem(t, v)
    \/ \E t \in DataTypes, id \in FDS_KnownIds, v \in Vals : FDS_updateItem(t, id, v)
    \/ \E t \in DataTypes, id \in FDS_KnownIds : FDS_deleteItem(t, id)
    \/ \E c \in calls, ok \in BOOLEAN : FDS_callDone(c, ok)
    \/ \E t \in DataTypes : ForeignCreate(t)
    \/ \E t \in DataTypes, id \in KnownIds : ForeignDelete(t, id)

SpecFDS == InitFDS /\ [][NextFDS]_vars

\* =============================================== any of the three managers
InitSync == InitLS \/ InitSDS \/ InitFDS

NextSync == NextLS \/ NextSDS \/ NextFDS

SpecSync == InitSync /\ [][NextSync]_vars

\* =========================== LoveSiteDataSync, first version (part_000)
\* Its mutations await the remote write before they touch the snapshot; a call
\* in flight is a member of calls.
V1_unchanged ==
    UNCHANGED <<isInitialized, syncing, pendingSyncs, psKeys, drain, fetch, subscribed,
                timers, rpc, pushQ, nextTemp, nextSeq, foreignLeft, obsVars, mVars,
                manager, data, isReady, syncStatus, retryCount, useFallback, pcInit,
                runs, initLoad, mutationTimers, retryTimers>>

\* init() up to its wait for the SDK: every collection is read from localStorage
V1_init ==
    /\ manager = "LoveSiteDataSync_v1"
    /\ initPc = "constructed"
    /\ initPc' = "waiting"
    /\ localData' = store
    /\ UNCHANGED <<store, remote, calls, budget, nextObj, clock>>
    /\ V1_unchanged

\* addItem / updateItem / deleteItem up to the await of the proxy call
V1_mutate(action, t, id, v) ==
    /\ manager = "LoveSiteDataSync_v1"
    /\ budget > 0
    /\ budget' = budget - 1
    /\ calls' = calls \cup {Call(action, t, id, v)}
    /\ UNCHANGED <<initPc, localData, store, remote, nextObj, clock>>
    /\ V1_unchanged

\* what the remote store holds for call c once it executed it
V1_remoteItem(c) ==
    IF c.action = "add" THEN Rec(ObjId(nextObj), c.v, FALSE, clock + 1)
    ELSE [remote[c.t][IndexOf(remote[c.t], c.id)] EXCEPT !.v = c.v]

\* the record addItem keeps when the remote write failed: it has no id
V1_newItem(c) == Rec(NoId, c.v, FALSE, clock + 1)

\* what addItem / updateItem return (null is NoRec).  Before init() ran,
\* this.localData[type] is undefined and the code after the await throws
V1_itemReturn(c, ok) ==
    IF initPc = "constructed" THEN NoRec
    ELSE IF ok THEN V1_remoteItem(c)
    ELSE IF c.action = "add" THEN V1_newItem(c)
    ELSE NoRec

\* what deleteItem returns
V1_deleteItemReturn(c, ok) == ok /\ initPc # "constructed"

\* the snapshot after the awaited call of c returned
V1_snapshotAfter(c, ok) ==
    LET snapshot == localData[c.t]
    IN IF initPc = "constructed" THEN snapshot
       ELSE IF c.action = "add"
       THEN IF ok THEN <<V1_remoteItem(c)>> \o FilterOutId(snapshot, V1_remoteItem(c).id)
            ELSE <<V1_newItem(c)>> \o snapshot
       ELSE IF ~ok THEN snapshot
       ELSE IF c.action = "update"
       THEN [i \in 1..Len(snapshot) |->
                IF snapshot[i].id = c.id THEN V1_remoteItem(c) ELSE snapshot[i]]
       ELSE FilterOutId(snapshot, c.id)

\* the awaited proxy call of c returns.  ok: the remote store executed the
\* write (proxy.addData / updateData return the record, deleteData true);
\* otherwise they return null / false
V1_callDone(c, ok) ==
    /\ manager = "LoveSiteDataSync_v1"
    /\ c \in calls
    /\ calls' = calls \ {c}
    /\ LET k == IndexOf(remote[c.t], c.id)
       IN /\ ok /\ c.action # "add" => k # 0
          /\ IF ~ok
             THEN UNCHANGED <<remote, nextObj, clock>>
             ELSE IF c.action = "add"
             THEN /\ remote' = [remote EXCEPT ![c.t] = <<V1_remoteItem(c)>> \o @]
                  /\ nextObj' = nextObj + 1
                  /\ clock' = clock + 1
             ELSE IF c.action = "update"
             THEN /\ remote' = [remote EXCEPT ![c.t][k] = V1_remoteItem(c)]
                  /\ UNCHANGED <<nextObj, clock>>
             ELSE /\ remote' = [remote EXCEPT ![c.t] = RemoveAt(@, k)]
                  /\ UNCHANGED <<nextObj, clock>>
    /\ localData' = [localData EXCEPT ![c.t] = V1_snapshotAfter(c, ok)]
    /\ IF \/ initPc = "constructed"
          \/ ~ok /\ c.action # "add"
       THEN UNCHANGED store
       ELSE saveLocalData(c.t, V1_snapshotAfter(c, ok))
    /\ UNCHANGED <<initPc, budget>>
    /\ V1_unchanged

InitV1 ==
    /\ initPc = "constructed"
    /\ isInitialized = FALSE
    /\ syncing = FALSE
    /\ localData = [t \in DataTypes |-> <<>>]
    /\ pendingSyncs = [t \in DataTypes |-> <<>>]
    /\ psKeys = <<>>
    /\ drain = NoDrain
    /\ fetch = [t \in DataTypes |-> NoFetch]
    /\ subscribed = FALSE
    /\ timers = 0
    /\ store \in [DataTypes -> {<<>>, <<Rec(ObjId(1), 1, FALSE, 1)>>}]
    /\ remote = store
    /\ rpc = NoRpc
    /\ pushQ = {}
    /\ nextTemp = 1
    /\ nextObj = 2
    /\ clock = 1
    /\ nextSeq = 1
    /\ budget = MaxUserOps
    /\ foreignLeft = 0
    /\ track = FALSE
    /\ attempted = {}
    /\ manager = "LoveSiteDataSync_v1"
    /\ NoSimpleManager

NextV1 ==
    \/ V1_init
    \/ \E t \in DataTypes, v \in AddVals : V1_mutate("add", t, NoId, v)
    \/ \E t \in DataTypes, id \in KnownIds, v \in Vals : V1_mutate("update", t, id, v)
    \/ \E t \in DataTypes, id \in KnownIds : V1_mutate("delete", t, id, 0)
    \/ \E c \in calls, ok \in BOOLEAN : V1_callDone(c, ok)

SpecV1 == InitV1 /\ [][NextV1]_vars

\* the managers whose mutations await the remote write
InitAwaited == InitV1 \/ InitFDS
NextAwaited == NextV1 \/ NextFDS
SpecAwaited == InitAwaited /\ [][NextAwaited]_vars

\* ============================================================= mergeData
\* the sequences of at most n elements of S
SeqsUpTo(S, n) == UNION {[1..k -> S] : k \in 0..n}

\* records a snapshot can hold: a temporary id, a remote id or no id at all
MergeLocalRecs ==
    {Rec(id, v, ~isValidObjectId(id), c) :
        id \in {TempId(n) : n \in 1..MaxMergeId} \cup {ObjId(n) : n \in 1..MaxMergeId}
               \cup {NoId},
        v \in Vals, c \in 0..MaxMergeTime}

\* records a query can return
MergeRemoteRecs ==
    {Rec(ObjId(n), v, FALSE, c) : n \in 1..MaxMergeId, v \in Vals, c \in 0..MaxMergeTime}

InitMerge ==
    /\ mergeLocal \in SeqsUpTo(MergeLocalRecs, MaxLen)
    /\ mergeRemote \in SeqsUpTo(MergeRemoteRecs, MaxLen)
    /\ merged = <<>>
    /\ remerged = <<>>
    /\ mergePc = "args"
    /\ storedValue = JAbsent
    /\ loadResult = JAbsent
    /\ loadPc = "none"
    /\ NoDeleteCall
    /\ NoTimerCall
    /\ manager = "none"
    /\ data = [t \in DataTypes |-> <<>>]
    /\ isReady = FALSE
    /\ syncStatus = "none"
    /\ retryCount = 0
    /\ useFallback = FALSE
    /\ pcInit = "none"
    /\ runs = [r \in Runs |-> NoRun]
    /\ initLoad = NoFetch
    /\ mutationTimers = 0
    /\ retryTimers = 0
    /\ calls = {}
    /\ store = [t \in DataTypes |-> <<>>]
    /\ remote = [t \in DataTypes |-> <<>>]
    /\ nextTemp = 1
    /\ nextObj = 1
    /\ clock = 0
    /\ budget = 0
    /\ foreignLeft = 0
    /\ NoLoveSiteDataSync

\* the call mergeData(type, local, remote)
Merge ==
    /\ mergePc = "args"
    /\ merged' = mergeData(mergeLocal, mergeRemote)
    /\ mergePc' = "done"
    /\ UNCHANGED <<mergeLocal, mergeRemote, remerged, loadVars, deleteVars, timerVars,
                   lsVars, envVars, obsVars, sVars>>

\* the call mergeData(type, merged, remote) on the result of the first call
MergeAgain ==
    /\ mergePc = "done"
    /\ remerged' = mergeData(merged, mergeRemote)
    /\ mergePc' = "again"
    /\ UNCHANGED <<mergeLocal, mergeRemote, merged, loadVars, deleteVars, timerVars,
                   lsVars, envVars, obsVars, sVars>>

NextMerge == Merge \/ MergeAgain

SpecMerge == InitMerge /\ [][NextMerge]_vars

\* ================================================= loading the local store
\* LoveSiteDataSync.loadLocalData: [] for no value; JSON.parse and the id
\* migration run inside try, and a value without map(), or a null element
\* (item.id throws), ends in the catch block, which returns []
LS_loadLocalData(raw, base) ==
    IF raw.kind = "array" /\ NoRec \notin Range(raw.items)
    THEN JArray(loadLocalData(raw.items, base))
    ELSE JArray(<<>>)

\* loadLocalData of the first LoveSiteDataSync: [] for no value or a text
\* JSON.parse rejects, else whatever JSON.parse returned
V1_loadLocalData(raw) ==
    IF raw.kind \in {"absent", "garbage"} THEN JArray(<<>>) ELSE raw

\* FixedDataSync: getData(type) after loadLocalBackup() when raw is what
\* 'loveSiteBackup' holds for the collection (backupData.data[type]); no value
\* or an unparseable backup leaves this.data[type] = [], and getData replaces
\* only a falsy value by []
FDS_loadedFromBackup(raw) ==
    IF raw.kind \in {"absent", "garbage", "null"} THEN JArray(<<>>) ELSE raw

\* records and elements a stored array can hold
StoredItems ==
    {Rec(TempId(1), 1, TRUE, 1), Rec(ObjId(1), 1, FALSE, 1), Rec(ObjId(2), 2, FALSE, 2),
     Rec(LocalId(1), 1, TRUE, 1), NoRec}

StoredValues ==
    {JValue(k, <<>>) : k \in {"absent", "garbage", "null", "object", "number"}}
    \cup {JArray(items) : items \in SeqsUpTo(StoredItems, MaxLen)}

InitLoad ==
    /\ storedValue \in StoredValues
    /\ loadResult = JAbsent
    /\ loadPc = "stored"
    /\ NoDeleteCall
    /\ NoTimerCall
    /\ mergeLocal = <<>>
    /\ mergeRemote = <<>>
    /\ merged = <<>>
    /\ remerged = <<>>
    /\ mergePc = "none"
    /\ manager = "none"
    /\ data = [t \in DataTypes |-> <<>>]
    /\ isReady = FALSE
    /\ syncStatus = "none"
    /\ retryCount = 0
    /\ useFallback = FALSE
    /\ pcInit = "none"
    /\ runs = [r \in Runs |-> NoRun]
    /\ initLoad = NoFetch
    /\ mutationTimers = 0
    /\ retryTimers = 0
    /\ calls = {}
    /\ store = [t \in DataTypes |-> <<>>]
    /\ remote = [t \in DataTypes |-> <<>>]
    /\ nextTemp = 1
    /\ nextObj = 1
    /\ clock = 0
    /\ budget = 0
    /\ foreignLeft = 0
    /\ NoLoveSiteDataSync

\* one loader is called on the stored value
Load(loader, result) ==
    /\ loadPc = "stored"
    /\ loadPc' = loader
    /\ loadResult' = result
    /\ UNCHANGED <<storedValue, mergeLocal, mergeRemote, merged, remerged, mergePc,
                   deleteVars, timerVars, lsVars, envVars, obsVars, sVars>>

CallLS_loadLocalData == Load("LoveSiteDataSync", LS_loadLocalData(storedValue, nextTemp))
CallV1_loadLocalData == Load("LoveSiteDataSync_v1", V1_loadLocalData(storedValue))
CallFDS_loadLocalBackup == Load("FixedDataSync", FDS_loadedFromBackup(storedValue))

NextLoad == CallLS_loadLocalData \/ CallV1_loadLocalData \/ CallFDS_loadLocalBackup

SpecLoad == InitLoad /\ [][NextLoad]_vars

\* ================================================ LeanCloudProxy.deleteData
\* the ids deleteData can be handed
DeleteIds == {TempId(n) : n \in 1..MaxMergeId} \cup {ObjId(n) : n \in 1..MaxMergeId}
             \cup {LocalId(1), NoId}

InitDelete ==
    /\ deleteArgs \in [av : BOOLEAN, id : DeleteIds, outcome : DestroyOutcomes]
    /\ deleteResult = FALSE
    /\ deletePc = "called"
    /\ NoTimerCall
    /\ storedValue = JAbsent
    /\ loadResult = JAbsent
    /\ loadPc = "none"
    /\ mergeLocal = <<>>
    /\ mergeRemote = <<>>
    /\ merged = <<>>
    /\ remerged = <<>>
    /\ mergePc = "none"
    /\ manager = "none"
    /\ data = [t \in DataTypes |-> <<>>]
    /\ isReady = FALSE
    /\ syncStatus = "none"
    /\ retryCount = 0
    /\ useFallback = FALSE
    /\ pcInit = "none"
    /\ runs = [r \in Runs |-> NoRun]
    /\ initLoad = NoFetch
    /\ mutationTimers = 0
    /\ retryTimers = 0
    /\ calls = {}
    /\ store = [t \in DataTypes |-> <<>>]
    /\ remote = [t \in DataTypes |-> <<>>]
    /\ nextTemp = 1
    /\ nextObj = 1
    /\ clock = 0
    /\ budget = 0
    /\ foreignLeft = 0
    /\ NoLoveSiteDataSync

DeleteUnchanged ==
    UNCHANGED <<deleteArgs, mergeLocal, mergeRemote, merged, remerged, mergePc, loadVars,
                timerVars, lsVars, envVars, obsVars, sVars>>

\* deleteData up to "await table.destroy()": without the SDK or for an id that
\* is no objectId it returns before it
DeleteData_called ==
    /\ deletePc = "called"
    /\ IF deleteArgs.av /\ isValidObjectId(deleteArgs.id)
       THEN deletePc' = "destroy" /\ UNCHANGED deleteResult
       ELSE /\ deletePc' = "returned"
            /\ deleteResult' = deleteData(deleteArgs.av, deleteArgs.id, deleteArgs.outcome)
    /\ DeleteUnchanged

\* destroy() settled: resolved, or rejected with code 101, 403, another code or
\* no response
DeleteData_destroyed ==
    /\ deletePc = "destroy"
    /\ deletePc' = "returned"
    /\ deleteResult' = deleteData(deleteArgs.av, deleteArgs.id, deleteArgs.outcome)
    /\ DeleteUnchanged

NextDelete == DeleteData_called \/ DeleteData_destroyed

SpecDelete == InitDelete /\ [][NextDelete]_vars

\* ========================================== startAutoSync / stopAutoSync
\* the page calls the two methods of one manager in any order
InitAutoSync ==
    /\ manager \in {"LoveSiteDataSync", "SimpleDataSync"}
    /\ autoSyncInterval = 0
    /\ intervals = {}
    /\ timerCalls = MaxTimerCalls
    /\ NoDeleteCall
    /\ storedValue = JAbsent
    /\ loadResult = JAbsent
    /\ loadPc = "none"
    /\ mergeLocal = <<>>
    /\ mergeRemote = <<>>
    /\ merged = <<>>
    /\ remerged = <<>>
    /\ mergePc = "none"
    /\ data = [t \in DataTypes |-> <<>>]
    /\ isReady = FALSE
    /\ syncStatus = "none"
    /\ retryCount = 0
    /\ useFallback = FALSE
    /\ pcInit = "none"
    /\ runs = [r \in Runs |-> NoRun]
    /\ initLoad = NoFetch
    /\ mutationTimers = 0
    /\ retryTimers = 0
    /\ calls = {}
    /\ store = [t \in DataTypes |-> <<>>]
    /\ remote = [t \in DataTypes |-> <<>>]
    /\ nextTemp = 1
    /\ nextObj = 1
    /\ clock = 0
    /\ budget = 0
    /\ foreignLeft = 0
    /\ NoLoveSiteDataSync

\* the id setInterval returns: a new positive number at every call
NewIntervalId == MaxTimerCalls - timerCalls + 1

TimerUnchanged ==
    UNCHANGED <<mergeLocal, mergeRemote, merged, remerged, mergePc, loadVars, deleteVars,
                lsVars, envVars, obsVars, sVars>>

\* LoveSiteDataSync.startAutoSync(): the new interval's id is assigned to
\* this.autoSyncInterval, whatever it held
LS_startAutoSync ==
    /\ manager = "LoveSiteDataSync"
    /\ timerCalls > 0
    /\ timerCalls' = timerCalls - 1
    /\ intervals' = intervals \cup {NewIntervalId}
    /\ autoSyncInterval' = NewIntervalId
    /\ TimerUnchanged

\* LoveSiteDataSync.stopAutoSync(): clearInterval of the held id, if any
LS_stopAutoSync ==
    /\ manager = "LoveSiteDataSync"
    /\ timerCalls > 0
    /\ timerCalls' = timerCalls - 1
    /\ IF autoSyncInterval # 0
       THEN /\ intervals' = intervals \ {autoSyncInterval}
            /\ autoSyncInterval' = 0
       ELSE UNCHANGED <<intervals, autoSyncInterval>>
    /\ TimerUnchanged

\* SimpleDataSync.startAutoSync(): the id setInterval returns is not kept (the
\* class has no stopAutoSync)
SDS_startAutoSync ==
    /\ manager = "SimpleDataSync"
    /\ timerCalls > 0
    /\ timerCalls' = timerCalls - 1
    /\ intervals' = intervals \cup {NewIntervalId}
    /\ UNCHANGED autoSyncInterval
    /\ TimerUnchanged

NextAutoSync == LS_startAutoSync \/ LS_stopAutoSync \/ SDS_startAutoSync

SpecAutoSync == InitAutoSync /\ [][NextAutoSync]_vars

LastWithId(s, id) == s[CHOOSE i \in 1..Len(s) : s[i].id = id /\ \A j \in (i+1)..Len(s) : s[j].id # id]

Identities(s) == Ids(s) \ {NoId}

\* C11 as stated: the result holds as many records as there are distinct
\* identities in local or remote
C11_MergeCount ==
    mergePc # "args" =>
        Len(merged) = Cardinality(Identities(mergeLocal) \cup Identities(mergeRemote))

\* C11 amended: when both arguments are non-empty the result holds as many
\* records as there are distinct identities in local or remote; when one is
\* empty the result is as long as the other, so the count is that of the
\* identities only if every record of the other carries an id of its own
C11_MergeCountAmended ==
    mergePc # "args" =>
        /\ mergeLocal # <<>> /\ mergeRemote # <<>> =>
              Len(merged) = Cardinality(Identities(mergeLocal) \cup Identities(mergeRemote))
        /\ mergeLocal = <<>> => Len(merged) = Len(mergeRemote)
        /\ mergeRemote = <<>> => Len(merged) = Len(mergeLocal)
        /\ /\ UniqueIds(mergeLocal) /\ NoId \notin Ids(mergeLocal)
           /\ UniqueIds(mergeRemote)
           => Len(merged) = Cardinality(Identities(mergeLocal) \cup Identities(mergeRemote))

\* a merge of two sequences of two records each that share one identity: three
\* records come back
C11_SharedIdentityCounted ==
    /\ mergePc = "done"
    /\ Len(mergeLocal) = 2 /\ Len(mergeRemote) = 2
    /\ Cardinality(Identities(mergeLocal) \cap Identities(mergeRemote)) = 1
    /\ Cardinality(Identities(mergeLocal) \cup Identities(mergeRemote)) = 3
    /\ Len(merged) = 3

\* C12: with an empty remote the result is the local sequence, with an empty
\* local it is the remote sequence, content and order unchanged (no sort, no
\* de-duplication)
C12_EmptySideReturnsOther ==
    mergePc # "args" =>
        /\ mergeRemote = <<>> => merged = mergeLocal
        /\ mergeLocal = <<>> => merged = mergeRemote

\* a merge with an empty remote of a local sequence that is neither ordered by
\* createdAt descending nor free of duplicate ids came back as it was
C12_UnsortedDuplicatesReturned ==
    /\ mergePc = "done"
    /\ mergeRemote = <<>>
    /\ Len(mergeLocal) = 2
    /\ mergeLocal[1].id = mergeLocal[2].id
    /\ mergeLocal[1].createdAt < mergeLocal[2].createdAt
    /\ merged = mergeLocal

\* s is ordered by createdAt descending
OrderedDesc(s) == \A i, j \in 1..Len(s) : i < j => s[i].createdAt >= s[j].createdAt

\* C13 as stated: merging the result with the same remote once more gives the
\* same ordered sequence
C13_MergeIdempotent ==
    mergePc = "again" => remerged = merged

\* C13 amended: merging the result with the same remote once more gives the
\* same ordered sequence when local is not empty, when remote is empty, or when
\* remote holds distinct ids ordered by createdAt descending; with an empty
\* local and any remote the second merge gives the records of remote, one per
\* id, ordered by createdAt descending
C13_MergeIdempotentAmended ==
    mergePc = "again" =>
        /\ \/ mergeLocal # <<>>
           \/ mergeRemote = <<>>
           \/ UniqueIds(mergeRemote) /\ OrderedDesc(mergeRemote)
           => remerged = merged
        /\ mergeLocal = <<>> =>
              /\ UniqueIds(remerged) /\ OrderedDesc(remerged)
              /\ Ids(remerged) = Ids(mergeRemote)
              /\ Range(remerged) \subseteq Range(mergeRemote)

\* two non-empty sequences, local holding a record remote also holds and one
\* it does not, were merged and the result merged with remote again, unchanged
C13_MergedTwice ==
    /\ mergePc = "again"
    /\ mergeRemote # <<>>
    /\ \E l \in Range(mergeLocal) : l.id \in Ids(mergeRemote) /\ l \notin Range(mergeRemote)
    /\ \E l \in Range(mergeLocal) : l.id # NoId /\ l.id \notin Ids(mergeRemote)
    /\ merged # mergeRemote \o mergeLocal
    /\ remerged = merged

\* the union mergeData sorts: the remote records, one per id in the order the
\* ids first occur, then the records only local holds, likewise
UnionOf(loc, rem) ==
    LET keep(s) == [i \in 1..Cardinality(Identities(s)) |->
                       LET firsts == {k \in 1..Len(s) : s[k].id # NoId /\ IndexOf(s, s[k].id) = k}
                           at == CHOOSE k \in firsts :
                                     Cardinality({q \in firsts : q < k}) = i - 1
                       IN LastWithId(s, s[at].id)]
    IN keep(rem) \o SelectSeq(keep(loc), LAMBDA r : r.id \notin Ids(rem))

\* m is u ordered by createdAt descending, records of equal createdAt in the
\* order they have in u
StableDesc(m, u) ==
    /\ Len(m) = Len(u)
    /\ Range(m) = Range(u)
    /\ \A i, j \in 1..Len(m) :
          i < j =>
              \/ m[i].createdAt > m[j].createdAt
              \/ /\ m[i].createdAt = m[j].createdAt
                 /\ IndexOf(u, m[i].id) < IndexOf(u, m[j].id)

C2_RejectedSyncChangesNothing ==
    [][/\ syncing /\ LS_syncAllData =>
            /\ syncAllDataRejected
            /\ UNCHANGED <<localData, store, pendingSyncs, psKeys, syncing, isInitialized,
                           drain, rpc, fetch, remote, pushQ>>
       /\ \A trigger \in Triggers :
            syncStatus = "syncing" /\ SDS_syncAllData(trigger) =>
                /\ SDS_syncRejected
                /\ UNCHANGED <<data, store, syncStatus, retryCount, isReady, runs,
                               initLoad, remote, calls>>
       /\ syncStatus = "syncing" /\ FDS_syncAllData =>
            /\ FDS_syncRejected
            /\ UNCHANGED <<data, store, syncStatus, retryCount, isReady, useFallback,
                           runs, initLoad, remote, calls>>]_vars

\* SimpleDataSync after one addItem whose delayed syncAllData() fired while the
\* periodic sync was still waiting for its query: the timer is gone, the run
\* of the periodic sync is the only one and the added record is still there
C2_RejectedWhileSyncing ==
    /\ manager = "SimpleDataSync"
    /\ pcInit = "done"
    /\ budget = MaxUserOps - 1
    /\ mutationTimers = 0
    /\ retryTimers = 0
    /\ retryCount = 0
    /\ syncStatus = "syncing"
    /\ runs[1].st \in {"sent", "read"}
    /\ runs[2] = NoRun
    /\ \E item \in Range(data[TheType]) : startsWithTemp(item.id) /\ item.isNew

\* ------------------------------------------ properties of the mutations
\* initialisation ended without reaching 'ready': the catch block of init()
\* ran, or the user declined the local storage mode
InitFailed == pcInit \in {"failed", "declined"} /\ syncStatus = "error"

\* C15: after an initialisation that failed (status 'error'), addItem of
\* SimpleDataSync and of FixedDataSync still returns the new record and the
\* record is in the snapshot afterwards
C15_LocalOperationAfterFailedInit ==
    [][\A t \in DataTypes, v \in Vals :
          /\ InitFailed /\ SDS_addItem(t, v) =>
                /\ SDS_addItemReturn(v) # NoRec
                /\ SDS_addItemReturn(v) \in Range(data'[t])
                /\ store' = data'
          /\ InitFailed /\ FDS_addItem(t, v) =>
                /\ FDS_addItemReturn(v) # NoRec
                /\ FDS_addItemReturn(v) \in Range(data'[t])]_vars

\* C16: a successful addItem of LoveSiteDataSync, in whatever state of init()
\* it is called, puts the record at the head of the snapshot, persists the
\* snapshot and leaves an 'add' operation for the record in the pending queue
C16_AddItemQueuesCreate ==
    [][\A t \in DataTypes, v \in Vals, thr \in BOOLEAN :
          LS_addItem(t, v, thr) /\ addItemReturn(v, thr) # NoRec =>
              /\ localData'[t] # <<>>
              /\ Head(localData'[t]) = addItemReturn(v, thr)
              /\ store'[t] = localData'[t]
              /\ \E o \in Range(pendingSyncs'[t]) :
                    o.action = "add" /\ o.id = addItemReturn(v, thr).id]_vars

\* C17: updateItem with an id that is not in the snapshot returns no record and
\* leaves the snapshot, the local store and the pending queue as they are; no
\* remote call is queued or issued
C17_UpdateOfUnknownIdRejected ==
    [][\A t \in DataTypes, v \in Vals :
          /\ \A id \in KnownIds, thr \in BOOLEAN :
                LS_updateItem(t, id, v, thr) /\ IndexOf(localData[t], id) = 0 =>
                    /\ updateItemReturn(t, id, v, thr) = NoRec
                    /\ UNCHANGED <<localData, store, pendingSyncs, psKeys, drain, rpc>>
          /\ \A id \in KnownIds :
                SDS_updateItem(t, id, v) /\ IndexOf(data[t], id) = 0 =>
                    UNCHANGED <<data, store, runs, mutationTimers, remote>>]_vars

\* the remote write run r of SimpleDataSync is waiting for is an update
UploadsUpdate(r) ==
    /\ manager = "SimpleDataSync"
    /\ runs[r].st = "upload"
    /\ ~runs[r].items[runs[r].j].isNew
    /\ runs[r].items[runs[r].j].isModified

\* C18: updateItem on a record that was never created remotely leaves it in
\* the unsynced-create state (isNew), updateItem on a synced record marks it
\* modified, and no remote update is ever issued on a temporary id
C18_UpdateKeepsUnsyncedCreate ==
    /\ [][\A t \in DataTypes, id \in KnownIds, v \in Vals :
             SDS_updateItem(t, id, v) /\ isReady /\ IndexOf(data[t], id) # 0 =>
                 LET before == data[t][IndexOf(data[t], id)]
                     after == data'[t][IndexOf(data'[t], id)]
                 IN /\ IndexOf(data'[t], id) # 0
                    /\ before.isNew => after.isNew
                    /\ ~before.isLocal => after.isModified /\ after.isLocal]_vars
    /\ [](\A r \in Runs :
             UploadsUpdate(r) => ~startsWithTemp(runs[r].items[runs[r].j].id))
    /\ [](rpc.action = "update" => ~startsWithTemp(rpc.id))

\* C19: deleteItem of LoveSiteDataSync on a record that never reached the
\* remote store (isLocal, temporary id) removes it from the snapshot and leaves
\* no 'add' operation for its id in the pending queue, apart from one whose
\* remote call had already started
C19_DeleteCancelsQueuedCreate ==
    [][\A t \in DataTypes, id \in KnownIds, thr \in BOOLEAN :
          /\ LS_deleteItem(t, id, thr)
          /\ IndexOf(localData[t], id) # 0
          /\ localData[t][IndexOf(localData[t], id)].isLocal
          /\ startsWithTemp(id)
          => /\ id \notin Ids(localData'[t])
             /\ \A o \in Range(pendingSyncs'[t]) :
                   o.action = "add" /\ o.id = id => drain.on /\ drain.op = o]_vars

\* run r of SimpleDataSync had the remote delete of id confirmed in this step
RemoteDeleteConfirmed(id) ==
    \E r \in Runs :
        /\ SDS_uploadDone(r, TRUE)
        /\ runs[r].items[runs[r].j].id = id
        /\ runs[r].items[runs[r].j].isDeleted

\* C20: deleteItem on a synced record keeps it in the snapshot, marked
\* pending-delete; the record leaves the snapshot only when the remote delete
\* was confirmed and keeps its mark until then
C20_DeleteKeepsSyncedRecord ==
    [][\A t \in DataTypes, id \in KnownIds :
          /\ \A thr \in BOOLEAN :
                /\ LS_deleteItem(t, id, thr)
                /\ IndexOf(localData[t], id) # 0
                /\ ~localData[t][IndexOf(localData[t], id)].isLocal
                => id \in Ids(localData'[t])
          /\ SDS_deleteItem(t, id) /\ isReady /\ IndexOf(data[t], id) # 0
                /\ ~startsWithTemp(id)
                => /\ IndexOf(data'[t], id) # 0
                   /\ data'[t][IndexOf(data'[t], id)].isDeleted
          /\ manager = "SimpleDataSync" /\ IndexOf(data[t], id) # 0
                /\ data[t][IndexOf(data[t], id)].isDeleted /\ ~RemoteDeleteConfirmed(id)
                => /\ IndexOf(data'[t], id) # 0
                   /\ data'[t][IndexOf(data'[t], id)].isDeleted]_vars

\* C21: whatever the outcome of the remote write, the mutation has applied its
\* change to the snapshot and the local store and returns the record / true:
\* a failed write leaves the change in place and does not turn the result into
\* null / false
C21_RemoteFailureKeepsLocalChange ==
    [][\A c \in calls :
          /\ V1_callDone(c, FALSE) /\ initPc # "constructed" =>
                /\ c.action \in {"add", "update"} =>
                      /\ V1_itemReturn(c, FALSE) # NoRec
                      /\ \E r \in Range(localData'[c.t]) : r.v = c.v
                /\ c.action = "delete" =>
                      /\ V1_deleteItemReturn(c, FALSE)
                      /\ c.id \notin Ids(localData'[c.t])
                /\ store'[c.t] = localData'[c.t]
          /\ FDS_callDone(c, FALSE) => UNCHANGED <<data, store>>]_vars

\* ------------------------------------------------ properties of the retries
\* C22: a failing SimpleDataSync.syncAllData leaves status 'error' and schedules
\* a retry only while retryCount < maxRetries, counting it; retryCount never
\* exceeds maxRetries; a sync that completes resets it to 0; and once
\* retryCount is maxRetries and the scheduled retries have fired, only an
\* external trigger (forceSync, periodic timer, a mutation) starts a sync
C22_BoundedRetries ==
    [][manager = "SimpleDataSync" =>
          /\ retryCount <= maxRetries /\ retryCount' <= maxRetries
          /\ retryTimers' > retryTimers =>
                /\ retryCount < maxRetries
                /\ retryCount' = retryCount + 1
                /\ retryTimers' = retryTimers + 1
                /\ syncStatus' = "error"
          /\ retryCount' # retryCount =>
                \/ retryCount' = 0 /\ syncStatus' = "ready"
                \/ /\ retryCount' = retryCount + 1
                   /\ retryTimers' >= retryTimers
                   /\ syncStatus' = "error"
          /\ syncStatus = "syncing" /\ syncStatus' = "error" /\ retryCount = maxRetries =>
                retryTimers' = retryTimers
          /\ syncStatus = "syncing" /\ syncStatus' = "ready" => retryCount' = 0
          /\ retryCount = maxRetries /\ retryTimers = 0 => ~SDS_syncAllData("retry")]_vars

\* three retries failed and none is scheduled any more
C22_GaveUp ==
    /\ manager = "SimpleDataSync"
    /\ retryCount = maxRetries
    /\ retryTimers = 0
    /\ syncStatus = "error"
    /\ \A r \in Runs : runs[r].st = "idle"

\* ------------------------------------------------ properties of syncStatus
\* the transitions of SimpleDataSync.syncStatus
StatusTransitions ==
    {<<"initializing", "ready">>, <<"ready", "syncing">>, <<"syncing", "ready">>,
     <<"syncing", "error">>, <<"initializing", "error">>, <<"error", "syncing">>}

\* C23: SimpleDataSync.syncStatus only takes the transitions initializing->ready,
\* ready->syncing, syncing->ready, syncing->error, initializing->error and
\* error->syncing (a syncAllData that ends without waiting for the remote store
\* passes through 'syncing'); in particular never error->ready directly
C23_StatusTransitions ==
    [][manager = "SimpleDataSync" /\ syncStatus' # syncStatus =>
          \/ <<syncStatus, syncStatus'>> \in StatusTransitions
          \/ /\ \E trigger \in Triggers : SDS_syncAllData(trigger)
             /\ <<syncStatus, "syncing">> \in StatusTransitions
             /\ <<"syncing", syncStatus'>> \in StatusTransitions]_vars

\* ------------------------------------------------ properties of init()
\* C24: when LoveSiteDataSync.init() completes successfully, every collection
\* has been fetched and merged into the snapshot (the snapshot holds every
\* record of the remote store), the periodic timer runs, and the queued
\* operations have been given a drain attempt
C24_InitSyncsEveryCollection ==
    [][LS_initReady =>
          /\ \A t \in DataTypes : Ids(remote[t]) \subseteq Ids(localData'[t])
          /\ timers' = timers + 1
          /\ QueuedOps(pendingSyncs) # {} => drain'.on]_vars

\* C25: the persisted snapshot is in memory before the remote is tried: while
\* init() waits for the remote, getData returns every record the local store
\* holds, and the records are still there when init() finishes, whether the
\* remote answered or not
C25_PersistedSnapshotLoadedFirst ==
    [][/\ manager = "LoveSiteDataSync" =>
            /\ initPc = "waiting" =>
                  \A t \in DataTypes : Ids(store[t]) \subseteq Ids(localData[t])
            /\ LS_initReady \/ LS_initTimeout =>
                  \A t \in DataTypes : Ids(store[t]) \subseteq Ids(localData'[t])
       /\ manager = "SimpleDataSync" =>
            /\ pcInit \in {"sdk", "verify", "load"} /\ budget = MaxUserOps =>
                  \A t \in DataTypes : Ids(store[t]) \subseteq Ids(data[t])
            /\ SDS_sdkFailed \/ (\E ok \in BOOLEAN : SDS_fetchDone(0, ok)) =>
                  \A t \in DataTypes : Ids(store[t]) \subseteq Ids(data'[t])]_vars

\* ------------------------------------------------ properties of the observers
\* C26: an observer that throws inside notifyDataUpdated does not reach the
\* caller: addItem / updateItem still return the record, the change is
\* persisted and the remote operation is queued
C26_ObserverExceptionIsolated ==
    [][\A t \in DataTypes, v \in Vals :
          /\ LS_addItem(t, v, TRUE) /\ initPc # "constructed" =>
                /\ addItemReturn(v, TRUE) # NoRec
                /\ store'[t] = localData'[t]
                /\ isInitialized => Len(pendingSyncs'[t]) > Len(pendingSyncs[t]) \/ drain'.on
          /\ \A id \in Ids(localData[t]) :
                LS_updateItem(t, id, v, TRUE) /\ initPc # "constructed" =>
                   /\ updateItemReturn(t, id, v, TRUE) # NoRec
                   /\ store'[t] = localData'[t]]_vars

\* ------------------------------------------------ properties of the loaders
\* a stored array whose elements are all records
WellFormed(raw) == raw.kind = "array" /\ NoRec \notin Range(raw.items)

\* the loaded records are the stored ones, ids of the old 'local_' format apart
AsStored(items, stored) ==
    /\ Len(items) = Len(stored)
    /\ \A i \in 1..Len(stored) :
          IF stored[i].id.kind = "local"
          THEN [items[i] EXCEPT !.id = stored[i].id] = stored[i]
          ELSE items[i] = stored[i]

\* C27: loading a collection from the local store yields a sequence of records:
\* the empty one when the stored value is absent, unparseable or not a
\* sequence of records, and the stored records when it is well formed
C27_LoadFallsBackToEmpty ==
    loadPc \notin {"none", "stored"} =>
        /\ loadResult.kind = "array"
        /\ IF WellFormed(storedValue)
           THEN AsStored(loadResult.items, storedValue.items)
           ELSE loadResult.items = <<>>

\* ------------------------------------------------ properties of a full sync
\* the local changes SimpleDataSync has not sent yet
Unsent(d) == {item \in Range(d[TheType]) : item.isLocal /\ NeedsUpload(item)}

\* C28: within a syncAllData run every pending local change has been sent
\* before a collection is fetched, and a fetched collection is merged with the
\* current snapshot and persisted before the run is over
C28_ChangesSentBeforeFetch ==
    [][/\ manager = "LoveSiteDataSync" =>
            /\ \A t \in DataTypes :
                  fetch[t].st = "none" /\ fetch'[t].st = "sent" =>
                     QueuedOps(pendingSyncs') = {}
            /\ \A t \in DataTypes :
                  LS_fetchDone(t, TRUE) =>
                     /\ localData'[t] = mergeData(localData[t], fetch[t].snap)
                     /\ store'[t] = localData'[t]
       /\ manager = "SimpleDataSync" =>
            \A r \in Runs :
               runs[r].st # "sent" /\ runs'[r].st = "sent" => Unsent(data') = {}]_vars

\* C29: a full sync repeated with the same remote contents and nothing in
\* between changes nothing: syncDataType applied to the snapshot a sync has
\* just produced, with the same query result, gives that snapshot again,
\* record for record and in the same order, and the store holds it
C29_RepeatedSyncStable ==
    [][\A t \in DataTypes :
          LS_fetchDone(t, TRUE) =>
             /\ mergeData(localData'[t], fetch[t].snap) = localData'[t]
             /\ store'[t] = localData'[t]]_vars

\* the second of two syncs is about to merge: the snapshot holds the merge of
\* an unsynced local record with the remote records, among them one another
\* client created and whose live-query event is not delivered yet (only a
\* first sync can have brought it), and the query returned the same remote
\* contents again
C29_SecondSyncReturns ==
    /\ manager = "LoveSiteDataSync"
    /\ \E t \in DataTypes :
          /\ fetch[t].st = "read"
          /\ fetch[t].snap # <<>>
          /\ Len(fetch[t].snap) < Len(localData[t])
          /\ \E r \in Range(localData[t]) : startsWithTemp(r.id)
          /\ Range(fetch[t].snap) \subseteq Range(localData[t])
          /\ localData[t] = mergeData(localData[t], fetch[t].snap)
          /\ store[t] = localData[t]
          /\ budget = MaxUserOps
          /\ \E e \in pushQ : e.action = "create" /\ e.rec \in Range(localData[t])

\* ------------------------------------------------ properties of temporary ids
\* the ids of the snapshots and of the remote store
IdsInUse == UNION {Ids(localData[t]) \cup Ids(remote[t]) : t \in DataTypes}

\* a temporary id starts with 'temp_', fails the objectId test and differs from
\* every remote id; no remote update / destroy is in flight for one; and the
\* queue passes over an update or delete of one: processPendingSyncs stops
\* only at an operation that issues a remote call and else empties the queue
TempIdsStayLocal ==
    /\ \A id \in IdsInUse :
          /\ isValidObjectId(id) <=> matchesObjectId(idString(id))
          /\ startsWithTemp(id) =>
                /\ SubSeq(idString(id), 1, 5) = <<"t", "e", "m", "p", "_">>
                /\ ~matchesObjectId(idString(id))
                /\ \A q \in IdsInUse : isValidObjectId(q) => idString(q) # idString(id)
    /\ rpc.action \in {"update", "delete"} => ~startsWithTemp(rpc.id)
    /\ LET sc == DrainScan(pendingSyncs, psKeys, 1, 1)
       IN IF sc.done
          THEN \A k \in 1..Len(psKeys) : sc.ps[psKeys[k]] = <<>>
          ELSE LET op == sc.ps[psKeys[sc.k]][sc.i]
               IN op.action \in {"update", "delete"} => ~startsWithTemp(op.id)

C31_OnlyStaleFailuresDropped ==
    [][\A ok \in BOOLEAN, thr \in BOOLEAN :
          LS_drainResponse(ok, thr) /\ (~RpcSuccess(ok) \/ thr) =>
             LET t == psKeys[drain.k]
             IN /\ ~drain.op.stale => drain.op \in Range(pendingSyncs'[t])
                /\ drain.op.stale /\ drain.op \notin Range(pendingSyncs'[t]) =>
                      /\ Ids(localData[t]) \subseteq Ids(localData'[t]) \cup {drain.op.id}
                      /\ store'[t] = localData'[t]]_vars

\* ------------------------------------------------ properties of deleteData
\* C32: when destroy() was called, deleteData returns true if it succeeded or
\* failed with 'object not found' (code 101), and false for every other error
C32_NotFoundIsSuccess ==
    deletePc = "returned" /\ deleteArgs.av /\ isValidObjectId(deleteArgs.id) =>
        /\ deleteArgs.outcome = "notfound" => deleteResult
        /\ deleteArgs.outcome \in {"denied", "server", "network"} => ~deleteResult
        /\ deleteArgs.outcome = "deleted" => deleteResult

\* destroy() was rejected with code 101 and deleteData returned true
C32_NotFoundReturned ==
    /\ deletePc = "returned"
    /\ deleteArgs.av
    /\ isValidObjectId(deleteArgs.id)
    /\ deleteArgs.outcome = "notfound"
    /\ deleteResult

\* ------------------------------------------------ properties of the local store
\* C33: between two handlers the local store equals the snapshot for every
\* collection, once init() has read it: every step that changes the snapshot
\* rewrites the store
C33_StoreMirrorsSnapshot ==
    /\ manager = "LoveSiteDataSync" /\ initPc # "constructed" =>
          \A t \in DataTypes : store[t] = localData[t]
    /\ manager = "SimpleDataSync" /\ pcInit \in {"done", "failed"} =>
          \A t \in DataTypes : store[t] = data[t]

\* ------------------------------------------------ properties of the periodic timer
\* C34: after any sequence of startAutoSync and stopAutoSync calls at most one
\* periodic timer is active; after stopAutoSync none is; and stopAutoSync
\* without a running timer changes nothing
C34_AtMostOnePeriodicTimer ==
    [][/\ Cardinality(intervals') <= 1
       /\ LS_stopAutoSync =>
             /\ intervals' = {}
             /\ intervals = {} => UNCHANGED <<intervals, autoSyncInterval>>]_vars

\* ------------------------------ properties of the queue under a suspended drain
QueuedSeqs(ps) == {o.seq : o \in UNION {Range(ps[t]) : t \in DataTypes}}

\* C35: an operation leaves pendingSyncs only when its own remote call has
\* completed, when it needed no remote call, or when a newer update of the same
\* id took its place; an operation enqueued during a suspended drain is never
\* removed unattempted
C35_SpliceRemovesAttemptedOp ==
    [][\A t \in DataTypes : \A o \in Range(pendingSyncs[t]) :
          o.seq \notin QueuedSeqs(pendingSyncs') =>
             \/ drain.on /\ drain.op.seq = o.seq /\ o.seq \in attempted
             \/ ~NeedsRemoteCall(o)
             \/ /\ o.action = "update"
                /\ \E q \in Range(pendingSyncs'[t]) :
                      /\ q.seq \notin QueuedSeqs(pendingSyncs)
                      /\ q.action = "update" /\ q.id = o.id]_vars

\* C36: when every remote call completes successfully and the page makes no
\* further mutation, the queue eventually becomes and stays empty
C36_QueueEventuallyDrained ==
    <>[](\A t \in DataTypes : pendingSyncs[t] = <<>>)

\* the ids whose 'delete' deleteItem has queued and that are still queued or
\* in flight
PendingDeletes(t) ==
    {o.id : o \in {q \in Range(pendingSyncs[t]) : q.action = "delete"}}
        \cup (IF drain.on /\ drain.op.action = "delete" /\ psKeys[drain.k] = t
              THEN {drain.op.id} ELSE {})

\* C37: while the remote delete of a record deleteItem has removed is queued or
\* in flight, no step of a full sync (syncDataType) and no step of a queue drain
\* puts a record with that id back into the snapshot
C37_DeletedStaysDeleted ==
    [][\A t \in DataTypes :
          (\E ok \in BOOLEAN : LS_fetchDone(t, ok)
              \/ \E thr \in BOOLEAN : LS_drainResponse(ok, thr)) =>
             \A id \in PendingDeletes(t) :
                 id \notin Ids(localData[t]) => id \notin Ids(localData'[t])]_vars

\* C38: in every reachable state of SimpleDataSync where the reported status
\* is 'ready', isReady is true (so addItem / updateItem / deleteItem are
\* accepted)
C38_ReadyStatusMeansReady ==
    manager = "SimpleDataSync" /\ syncStatus = "ready" => isReady

\* C39: when FixedDataSync cannot initialize the remote service (the SDK does
\* not load, or the verification fails and the user accepts or declines the
\* local mode), the end of init() leaves the records of a non-empty persisted
\* backup both in the snapshot and in the persisted backup
C39_InitKeepsPersistedBackup ==
    [][(FDS_sdkFailed \/ \E confirmed \in BOOLEAN : FDS_verifyDone(FALSE, confirmed)) =>
          \A t \in DataTypes :
              store["present"] /\ store[t] # <<>> =>
                  /\ Ids(store[t]) \subseteq Ids(data'[t])
                  /\ store'["present"] /\ Ids(store[t]) \subseteq Ids(store'[t])]_vars

\* a full sync is under way while some query of syncDataType is pending
FullSyncRunning == \E t \in DataTypes : fetch[t].st # "none"

\* C40: a queue drain and a full sync never overlap, and the syncing flag is set
\* exactly while one of them is under way: each is skipped while the other
\* holds the flag, and the flag is released when either finishes
C40_DrainAndSyncExclusive ==
    manager = "LoveSiteDataSync" =>
        /\ ~(drain.on /\ FullSyncRunning)
        /\ syncing <=> (drain.on \/ FullSyncRunning)

\* a mutation was queued while a full sync held the flag: its drain was skipped
C40_DrainSkippedDuringSync ==
    /\ manager = "LoveSiteDataSync"
    /\ isInitialized
    /\ FullSyncRunning
    /\ ~drain.on
    /\ syncing
    /\ budget < MaxUserOps
    /\ \E t \in DataTypes : pendingSyncs[t] # <<>>

\* ------------------------------------------ properties of LoveSiteDataSync
\* C8: the remote calls of processPendingSyncs start in enqueue order: when
\* the call of an operation starts for the first time, no operation enqueued
\* after it has had its call started (an update dropped in favour of a newer one
\* is no longer queued and is never attempted after that)
C8_FifoRemoteCalls ==
    [][\A s \in attempted' \ attempted : \A b \in attempted : b < s]_vars


\* C3: in every reachable state of LoveSiteDataSync no two records of one
\* collection snapshot share the same id
C3_SnapshotIdsUnique == \A t \in DataTypes : UniqueIds(localData[t])

\* C6: when the remote call of the attempted operation failed (addData or
\* updateData returned null, deleteData returned false) and the operation is
\* younger than 24 hours, the operation is still queued after the attempt
C6_FailedOperationStaysQueued ==
    [][(\E thr \in BOOLEAN : LS_drainResponse(FALSE, thr)) /\ ~drain.op.stale
          => drain.op \in QueuedOps(pendingSyncs')]_vars

\* the positions of the queued 'update' operations for id
QueuedUpdates(ops, id) == {i \in 1..Len(ops) : ops[i].action = "update" /\ ops[i].id = id}

\* the step in which updateItem(t, id, v) reaches queueSyncOperation
EnqueuesUpdate(t, id, v) ==
    LS_updateItem(t, id, v, FALSE) /\ initPc # "constructed" /\ isInitialized

\* C7: in every reachable state the queue of a collection holds at most one
\* 'update' per record id, and enqueueing update(X, fieldsB) while an update for
\* X is queued leaves no queued update for X other than the one carrying
\* fieldsB: exactly that one while no drain can run (syncing is set)
C7_OneQueuedUpdatePerId ==
    /\ [](\A t \in DataTypes : \A o \in Range(pendingSyncs[t]) :
             o.id # NoId => Cardinality(QueuedUpdates(pendingSyncs[t], o.id)) <= 1)
    /\ [][\A t \in DataTypes, id \in KnownIds, v \in Vals :
             EnqueuesUpdate(t, id, v) /\ QueuedUpdates(pendingSyncs[t], id) # {}
                 => LET after == QueuedUpdates(pendingSyncs'[t], id)
                    IN /\ Cardinality(after) <= 1
                       /\ \A i \in after : pendingSyncs'[t][i].v = v
                       /\ syncing => Cardinality(after) = 1]_vars

\* the update in flight was replaced in the queue by a newer update of the same
\* id with other fields
C7_Collapsed ==
    \E t \in DataTypes :
        /\ drain.on /\ drain.op.action = "update"
        /\ drain.op \notin Range(pendingSyncs[t])
        /\ \E i \in QueuedUpdates(pendingSyncs[t], drain.op.id) :
               pendingSyncs[t][i].v # drain.op.v

\* the step in which the queued 'add' of temporary id T returns the created
\* remote record
AddSucceeds(thr) ==
    LS_drainResponse(TRUE, thr) /\ drain.op.action = "add" /\ rpc.st = "applied"

\* C9: when the 'add' of temporary id T succeeds with remote id R, every
\* 'update' or 'delete' still queued for T is afterwards queued, or in flight,
\* for R
C9_QueuedOpsRetargeted ==
    [][\A thr \in BOOLEAN : AddSucceeds(thr) =>
          \A o \in QueuedOps(pendingSyncs) :
              o.action \in {"update", "delete"} /\ o.id = drain.op.id =>
                  \/ \E q \in QueuedOps(pendingSyncs') :
                         q.action = o.action /\ q.id = rpc.res.id
                  \/ rpc'.action = o.action /\ rpc'.id = rpc.res.id]_vars

\* C5: addItem returns a record with a temporary id that is marked local; when
\* the remote create of a record still in the snapshot succeeds with remote id
\* R, the snapshot then holds exactly one record with id R, marked synced, and
\* no record with the temporary id
C5_TempIdLifecycle ==
    /\ [][\A t \in DataTypes, v \in AddVals :
             LS_addItem(t, v, FALSE) /\ initPc # "constructed"
                 => /\ startsWithTemp(addItemReturn(v, FALSE).id)
                    /\ addItemReturn(v, FALSE).isLocal
                    /\ addItemReturn(v, FALSE) \in Range(localData'[t])]_vars
    /\ [][AddSucceeds(FALSE) /\ drain.op.id \in Ids(localData[psKeys[drain.k]])
             => LET snapshot == localData'[psKeys[drain.k]]
                    R == rpc.res.id
                IN /\ Cardinality({i \in 1..Len(snapshot) : snapshot[i].id = R}) = 1
                   /\ \A i \in 1..Len(snapshot) : snapshot[i].id = R => ~snapshot[i].isLocal
                   /\ drain.op.id \notin Ids(snapshot)]_vars

\* ---------------------------------------------- properties of full syncs
\* the syncAllData invocations of SimpleDataSync that have passed the guard and
\* not yet returned
RunningSyncs == {r \in Runs : runs[r].st # "idle"}

\* C1: at most one full sync is in flight at any time: in SimpleDataSync at most
\* one syncAllData is between its guard and its return, and in LoveSiteDataSync
\* the queries of syncAllData are in flight only under the syncing flag and
\* never beside a queue drain
C1_AtMostOneFullSync ==
    /\ Cardinality(RunningSyncs) <= 1
    /\ (\E t \in DataTypes : fetch[t].st # "none") => syncing /\ ~drain.on

\* the remote create of the record with temporary id `id` succeeds in this step
\* and the record is in the snapshot under its remote id afterwards
CreatedRemotely(t, id) ==
    \/ \E r \in Runs :
          /\ SDS_uploadDone(r, TRUE)
          /\ runs[r].items[runs[r].j].id = id
          /\ runs[r].items[runs[r].j].isNew
          /\ ObjId(nextObj) \in Ids(data'[t])
    \/ \E thr \in BOOLEAN :
          /\ AddSucceeds(thr)
          /\ drain.op.id = id
          /\ rpc.res.id \in Ids(localData'[t])

\* C4: a record added locally (temporary id) that is in getData(collection)
\* is still there after every step, unless the step is the user's deleteItem on
\* it or the success of its remote create, after which it is there under its
\* remote id
C4_LocalAddStaysVisible ==
    [][\A t \in DataTypes :
          /\ \A rec \in Range(data[t]) :
                startsWithTemp(rec.id) =>
                    \/ rec.id \in Ids(data'[t])
                    \/ SDS_deleteItem(t, rec.id)
                    \/ CreatedRemotely(t, rec.id)
          /\ \A rec \in Range(localData[t]) :
                startsWithTemp(rec.id) =>
                    \/ rec.id \in Ids(localData'[t])
                    \/ \E thr \in BOOLEAN : LS_deleteItem(t, rec.id, thr)
                    \/ CreatedRemotely(t, rec.id)]_vars

====
